---------------------------- MODULE Spec2Model ----------------------------
(***************************************************************************)
(* A model of the video assembly back end of reamourad/mchacks2026:        *)
(* the Gumloop job orchestration (backend/gumloop.py, backend/main.py),    *)
(* the Creatomate render poll and the ffmpeg cut/concat helpers            *)
(* (backend/video_processing.py) and the subtitle synthesizer              *)
(* (backend/services/video_processing.py).                                 *)
(*                                                                         *)
(* Each subsystem has its own specification (SpecOrch, SpecTask, ...).     *)
(* The variables of the other subsystems stay at their initial value.      *)
(***************************************************************************)
EXTENDS Integers, Sequences, FiniteSets, TLC

VARIABLES
    cfg,            \* gumloop.py:29-34, the module globals read from the environment
    lastCall,       \* the last call made to the orchestrator's functions, with its result
    pvt,            \* process_video_task: its position and locals (main.py:97-180)
    project,        \* the project document process_video_task updates (db.py:45-67)
    render,         \* wait_for_render_complete: its position and locals
    matches,        \* the match list of a create-video request
    cv,             \* POST /create_video: its position and locals (main.py:183-276)
    cm,             \* the Creatomate create_video_from_matches (video_processing.py:83-186)
    cc,             \* one call of a Sequencer function: its inputs, position and locals
    fs,             \* the files a Sequencer function writes, each present or absent
    sub,            \* add_subtitles_to_video on one transcript entry: inputs, position, locals
    ts,             \* one call of a Timestamp Parser function: its input and its result
    ex,             \* one export: export_project from the voiceover on, process_project_export, the mux
    mg,             \* create_merged_video: the clips, the loop, the timeline
    two,            \* two concurrent concatenations and the list files they write
    loc,            \* create_video_from_matches_local: the loop, the segments, the final video
    vo,             \* the voiceover of a project: the record, the blobs, the last answer
    tl,             \* the timeline of a project and the clip requests in flight
    pj,             \* the projects collection and the last answer
    ast             \* the assets collection of one project and the last answer

orchVars == <<cfg, lastCall>>
taskVars == <<pvt, project, render>>
createVars == <<matches, cv, cm>>
concatVars == <<cc, fs>>
laterVars == <<ts, ex, mg, two, loc, vo, tl, pj, ast>>
mediaVars == <<createVars, concatVars, sub, laterVars>>
vars == <<cfg, lastCall, pvt, project, render, matches, cv, cm, cc, fs, sub, ts, ex, mg, two, loc, vo, tl, pj,
          ast>>

(***************************************************************************)
(* Bounds of the model.                                                    *)
(***************************************************************************)
\* The longest match list a remote response carries.
MaxRemoteMatches == 2

(***************************************************************************)
(* Small helpers.                                                          *)
(***************************************************************************)
SeqsUpTo(S, n) == UNION {[1..k -> S] : k \in 0..n}

(***************************************************************************)
(* Remote Job Orchestrator: configuration (gumloop.py:29-34).              *)
(* Each field says whether the variable holds a non-empty value, which is  *)
(* all the code tests (`if not GUMLOOP_API_KEY`).                          *)
(***************************************************************************)
Configs ==
    [use_mock : BOOLEAN, base_url : BOOLEAN, results_url : BOOLEAN,
     api_key : BOOLEAN, user_id : BOOLEAN, saved_item_id : BOOLEAN]

\* Results of a call: a return value or a raised exception.
RNone == [kind |-> "none", matches |-> <<>>, val |-> "-"]
RList(m) == [kind |-> "list", matches |-> m, val |-> "-"]
RStr(s) == [kind |-> "str", matches |-> <<>>, val |-> s]
RRaise(e) == [kind |-> "raise", matches |-> <<>>, val |-> e]

\* get_mock_gumloop_data (gumloop.py:143-177): four fixed segments, 1..4.
get_mock_gumloop_data == <<1, 2, 3, 4>>

(***************************************************************************)
(* What the results endpoint answers (gumloop.py:103-105).                 *)
(*   http   "ok", "status_error" (raise_for_status raises HTTPStatusError) *)
(*          or "error" (timeout, connection error, ...)                    *)
(*   json   whether response.json() decodes                                *)
(*   state  data.get("state"); "absent" when the field is missing          *)
(*   shape  the shape of data["outputs"]["output"], see below              *)
(*   matches  the list under "matches" when shape = "object_matches"       *)
(***************************************************************************)
RemoteStates ==
    {"PENDING", "QUEUED", "RUNNING", "DONE", "FAILED", "TERMINATED", "absent"}
NotReadyStates == {"PENDING", "QUEUED", "RUNNING"}
PayloadShapes ==
    {"no_outputs",         \* data has no "outputs" key
     "outputs_null",       \* "outputs": null
     "no_output",          \* outputs has no "output" key
     "output_empty",       \* "output": ""
     "invalid_json",       \* output is not valid JSON
     "json_not_object",    \* output is valid JSON, but a list, string, number or null
     "object_no_matches",  \* a JSON object without "matches"
     "object_matches"}     \* a JSON object with "matches"
SegmentIds == {1, 2}
Responses ==
    {[http |-> "status_error", json |-> TRUE, state |-> "absent",
      shape |-> "no_outputs", matches |-> <<>>],
     [http |-> "error", json |-> TRUE, state |-> "absent",
      shape |-> "no_outputs", matches |-> <<>>],
     [http |-> "ok", json |-> FALSE, state |-> "absent",
      shape |-> "no_outputs", matches |-> <<>>]}
    \cup
    {[http |-> "ok", json |-> TRUE, state |-> s, shape |-> sh, matches |-> <<>>] :
        s \in RemoteStates, sh \in PayloadShapes \ {"object_matches"}}
    \cup
    {[http |-> "ok", json |-> TRUE, state |-> s, shape |-> "object_matches",
      matches |-> m] :
        s \in RemoteStates, m \in SeqsUpTo(SegmentIds, MaxRemoteMatches)}

\* Mutation of DecodeDone: a payload that does not decode to an object with
\* "matches" raises instead of being swallowed.
DecodeDone_Strict(r) ==
    IF r.shape = "object_matches" THEN RList(r.matches) ELSE RRaise("Exception")

\* gumloop.py:112-129, the DONE branch.
\*   outputs = data.get("outputs", {}); output_str = outputs.get("output")
\*   None.get raises AttributeError, which line 138 catches.
DecodeDone(r) ==
    CASE r.shape = "outputs_null" -> RNone        \* AttributeError -> line 138-140
      [] r.shape \in {"no_outputs", "no_output", "output_empty"} -> RNone  \* 127-129
      [] r.shape = "invalid_json" -> RNone        \* JSONDecodeError, 123-126
      [] r.shape = "json_not_object" -> RNone     \* AttributeError -> 138-140
      [] r.shape = "object_no_matches" -> RList(<<>>)   \* .get("matches", []), 121
      [] r.shape = "object_matches" -> RList(r.matches) \* 121-122

\* Mutation of get_gumloop_results: the state test of line 112 is lost, so a
\* decodable payload is returned whatever the state.
get_gumloop_results_AnyState(c, r) ==
    IF c.use_mock \/ ~c.results_url THEN RList(get_mock_gumloop_data)
    ELSE IF ~c.api_key \/ ~c.user_id THEN RRaise("ValueError")
    ELSE IF r.http # "ok" \/ ~r.json THEN RNone
    ELSE IF r.state \in {"RUNNING", "QUEUED", "PENDING"} THEN RNone
    ELSE DecodeDone(r)

\* Mutation of get_gumloop_results: the final else (132-134) raises.
get_gumloop_results_RaiseOnFailure(c, r) ==
    IF c.use_mock \/ ~c.results_url THEN RList(get_mock_gumloop_data)
    ELSE IF ~c.api_key \/ ~c.user_id THEN RRaise("ValueError")
    ELSE IF r.http # "ok" \/ ~r.json THEN RNone
    ELSE IF r.state = "DONE" THEN DecodeDone(r)
    ELSE IF r.state \in {"RUNNING", "QUEUED", "PENDING"} THEN RNone
    ELSE RRaise("Exception")

\* get_gumloop_results (gumloop.py:77-140), called with all three arguments.
get_gumloop_results(c, r) ==
    IF c.use_mock THEN RList(get_mock_gumloop_data)                 \* 82-85
    ELSE IF ~c.results_url THEN RList(get_mock_gumloop_data)        \* 87-90
    ELSE IF ~c.api_key THEN RRaise("ValueError")                    \* 92-93
    ELSE IF ~c.user_id THEN RRaise("ValueError")                    \* 94-95
    ELSE IF r.http = "status_error" THEN RNone                      \* 135-137
    ELSE IF r.http = "error" THEN RNone                             \* 138-140
    ELSE IF ~r.json THEN RNone                                      \* 105, 138-140
    ELSE IF r.state = "DONE" THEN DecodeDone(r)                     \* 112-129
    ELSE IF r.state \in {"RUNNING", "QUEUED", "PENDING"} THEN RNone \* 130-131
    ELSE RNone                                                      \* 132-134

\* The call expression `get_gumloop_results(run_id)` of main.py:74 and main.py:125
\* against the signature of gumloop.py:77, which has three required positional
\* parameters (run_id, username, project_name): Python binds the arguments
\* before the body runs and raises TypeError when required ones are missing.
get_gumloop_results_call(nargs, c, r) ==
    IF nargs < 3 THEN RRaise("TypeError") ELSE get_gumloop_results(c, r)

(***************************************************************************)
(* What the start_pipeline endpoint answers (gumloop.py:63-65).            *)
(***************************************************************************)
SubmitResponses ==
    [http : {"ok", "status_error", "error"}, json : BOOLEAN, has_run_id : BOOLEAN]

\* Mutation of start_gumloop_pipeline: the configuration test of line 53 is lost.
start_gumloop_pipeline_NoConfigTest(c, s) ==
    IF c.use_mock THEN RStr("mock_run_id")
    ELSE IF s.http = "status_error" THEN RRaise("HTTPStatusError")
    ELSE IF s.http = "error" THEN RRaise("HTTPError")
    ELSE IF ~s.json THEN RRaise("JSONDecodeError")
    ELSE IF ~s.has_run_id THEN RRaise("ValueError")
    ELSE RStr("remote_run_id")

\* start_gumloop_pipeline (gumloop.py:45-75).
start_gumloop_pipeline(c, s) ==
    IF c.use_mock THEN RStr("mock_run_id")                          \* 49-51
    ELSE IF ~c.base_url \/ ~c.api_key \/ ~c.user_id \/ ~c.saved_item_id
        THEN RRaise("ValueError")                                   \* 53-54
    ELSE IF s.http = "status_error" THEN RRaise("HTTPStatusError")  \* 64, 70-72
    ELSE IF s.http = "error" THEN RRaise("HTTPError")               \* 63, 73-75
    ELSE IF ~s.json THEN RRaise("JSONDecodeError")                  \* 65, 73-75
    ELSE IF ~s.has_run_id THEN RRaise("ValueError")                 \* 67-68, 73-75
    ELSE RStr("remote_run_id")                                      \* 69

\* call_gumloop_endpoint (main.py:57-66): the HTTP answer to POST /call_gumloop.
call_gumloop_endpoint(c, s) ==
    LET out == start_gumloop_pipeline(c, s)
    IN  IF out.kind = "raise"
        THEN [status |-> 500, run_id |-> "-", detail |-> out.val]   \* 65-66
        ELSE [status |-> 200, run_id |-> out.val, detail |-> "-"]   \* 63-64

\* get_run_results_endpoint (main.py:68-80): the HTTP answer to GET /get_run_results.
get_run_results_endpoint(c, r) ==
    LET out == get_gumloop_results_call(1, c, r)                    \* 74
    IN  IF out.kind = "raise"
        THEN [status |-> 500, run_id |-> "-", detail |-> out.val]   \* 79-80
        ELSE IF out.kind = "list"
        THEN [status |-> 200, run_id |-> "-", detail |-> "completed"] \* 75-76
        ELSE [status |-> 200, run_id |-> "-", detail |-> "running"] \* 77-78

NoResponse == [http |-> "-"]
NoCall == [fn |-> "none", resp |-> NoResponse, out |-> RNone, http |-> 0]

(***************************************************************************)
(* SpecOrch: the orchestrator's functions applied to every configuration   *)
(* and every remote answer.                                                *)
(***************************************************************************)
InitTaskIdle ==
    /\ pvt = [pc |-> "idle", i |-> 0, attempts |-> 0, temp_dir |-> FALSE,
              made_temp |-> FALSE, run_id |-> "-", all_not_ready |-> TRUE,
              matches |-> RNone, exc |-> "-"]
    /\ project = [exists |-> FALSE, status |-> "new", error |-> "-"]
    /\ render = [pc |-> "idle", i |-> 0, polls |-> 0, all_not_ready |-> TRUE,
                 out |-> "-"]

CvIdle == [pc |-> "idle", i |-> 0, temp_dir |-> FALSE, temp_files |-> {},
           downloaded_clips |-> {}, cut_clip_paths |-> <<>>,
           cut_clip_s3_urls |-> <<>>, exc |-> "-", status |-> 0]

CmIdle == [pc |-> "idle", i |-> 0, elements |-> <<>>, current_time |-> 0,
           out |-> "-"]

InitCreateIdle ==
    /\ matches = <<>>
    /\ cv = CvIdle
    /\ cm = CmIdle

Absent == [exists |-> FALSE, lines |-> <<>>]
Present(lines) == [exists |-> TRUE, lines |-> lines]

CcIdle == [fn |-> "none", pc |-> "idle", video_paths |-> <<>>,
           project_clips |-> <<>>, clips |-> <<>>, k |-> 0, held |-> {},
           resized_clips |-> <<>>, commands |-> <<>>, returncode |-> 0,
           exc |-> "-"]

FsEmpty == [list_file |-> Absent, concat_file |-> Absent, output |-> Absent]

InitConcatIdle ==
    /\ cc = CcIdle
    /\ fs = FsEmpty

SubIdle == [variant |-> "none", font |-> "none", entry |-> <<>>, pc |-> "idle",
            start_s |-> 0, total_duration |-> <<0, 1>>, words |-> <<>>,
            chunks |-> <<>>, chunk_duration |-> <<0, 1>>, i |-> 0,
            subtitle_clips |-> <<>>, exc |-> "-"]

TsIdle == [fn |-> "none", a |-> <<>>, b |-> <<>>, range |-> FALSE, str |-> <<>>,
           out |-> [ok |-> FALSE, start |-> 0, end |-> 0, has_end |-> FALSE]]

NoFile == [exists |-> FALSE, video |-> "-", audio |-> "none"]

ExIdle == [pc |-> "idle", voiceover |-> FALSE, transcript |-> FALSE,
           clip_audio |-> "none", audio_path |-> FALSE, merged |-> NoFile,
           video_only |-> NoFile, output |-> NoFile, returncode |-> 0,
           exc |-> "-", status |-> 0]

MgIdle == [pc |-> "idle", video_clips |-> <<>>, i |-> 0, elements |-> <<>>,
           current_time |-> 0, out |-> "-"]

Invocations == {1, 2}

output_path(p) == "out" \o ToString(p) \o ".mp4"

\* The list file of fast_concatenate_videos (video_processing.py:320) and the
\* concat file of concatenate_videos_ffmpeg (video_processing.py:401).
ListFileOf(fn, out) ==
    IF fn = "fast_concatenate_videos" THEN "temp_concat_list.txt"
    ELSE out \o ".concat.txt"

ListFiles ==
    {ListFileOf(fn, output_path(p)) :
        fn \in {"fast_concatenate_videos", "concatenate_videos_ffmpeg"},
        p \in Invocations}

InvIdle == [fn |-> "none", pc |-> "idle", video_paths |-> <<>>,
            directive |-> Absent, returncode |-> 0, exc |-> "-"]

TwoIdle == [inv |-> [p \in Invocations |-> InvIdle],
            files |-> [f \in ListFiles |-> Absent]]

LocIdle == [pc |-> "idle", i |-> 0, cut_clip_paths |-> <<>>, failed |-> {},
            final_video |-> FALSE, exc |-> "-"]

NoVoiceover == [present |-> FALSE, s3_key |-> "-", source |-> "-"]

VoIdle == [voiceover |-> NoVoiceover, blobs |-> {}, op |-> "none", status |-> 0]

Requests == {1, 2}

NoRequest == [op |-> "none", clip_id |-> 0, has_start |-> FALSE, start_time |-> 0,
              has_end |-> FALSE, end_time |-> 0, has_order |-> FALSE, order |-> 0]

NoAnswer == [op |-> "none", status |-> 0, clip_ids |-> <<>>, auto |-> FALSE,
             order |-> 0]

TlIdle == [clips |-> <<>>, next_id |-> 1, req |-> [r \in Requests |-> NoRequest],
           received |-> 0, overlapped |-> FALSE, last |-> NoAnswer]

MaxProjects == 2

ProjectIds == 1..MaxProjects

\* A slot of the projects collection: "free" before its _id is given out,
\* "live" while the document exists, "deleted" after delete_one. None is
\* written "none".
NoProject == [state |-> "free", title |-> "-", user_id |-> "none",
              session_id |-> "none"]

NoReply == [op |-> "none", id |-> 0, user |-> "none", session |-> "none",
            status |-> 0]

PjIdle == [projects |-> [i \in ProjectIds |-> NoProject], last |-> NoReply]

MaxAssets == 2

AssetSlots == 1..MaxAssets

\* A slot of the assets collection: "free" before its _id is given out,
\* "live" while the document exists, "deleted" after delete_one. A duration
\* of 0 is a document without the field.
NoAsset == [state |-> "free", status |-> "-", s3_url |-> FALSE,
            duration |-> 0]

NoAssetAnswer == [op |-> "none", status |-> 0, id |-> 0, duration |-> 0,
                  asset |-> NoAsset, listed |-> {}]

AstIdle == [assets |-> [i \in AssetSlots |-> NoAsset], last |-> NoAssetAnswer]

InitLaterIdle ==
    /\ ast = AstIdle
    /\ pj = PjIdle
    /\ tl = TlIdle
    /\ vo = VoIdle
    /\ loc = LocIdle
    /\ two = TwoIdle
    /\ mg = MgIdle
    /\ ex = ExIdle
    /\ ts = TsIdle

InitMediaIdle ==
    /\ InitCreateIdle
    /\ InitConcatIdle
    /\ sub = SubIdle
    /\ InitLaterIdle

InitOrch ==
    /\ cfg \in Configs
    /\ lastCall = NoCall
    /\ InitTaskIdle
    /\ InitMediaIdle

\* poll(JobHandle): one call of get_gumloop_results.
Poll ==
    /\ \E r \in Responses :
          lastCall' = [fn |-> "poll", resp |-> r,
                       out |-> get_gumloop_results(cfg, r), http |-> 0]
    /\ UNCHANGED <<cfg, taskVars, mediaVars>>

\* submit(payload): one call of start_gumloop_pipeline through its endpoint.
Submit ==
    /\ \E s \in SubmitResponses :
          lastCall' = [fn |-> "submit", resp |-> s,
                       out |-> start_gumloop_pipeline(cfg, s),
                       http |-> call_gumloop_endpoint(cfg, s).status]
    /\ UNCHANGED <<cfg, taskVars, mediaVars>>

\* GET /get_run_results/{run_id}.
RunResults ==
    /\ \E r \in Responses :
          lastCall' = [fn |-> "run_results", resp |-> r,
                       out |-> get_gumloop_results_call(1, cfg, r),
                       http |-> get_run_results_endpoint(cfg, r).status]
    /\ UNCHANGED <<cfg, taskVars, mediaVars>>

NextOrch == Poll \/ Submit \/ RunResults

SpecOrch == InitOrch /\ [][NextOrch]_vars

Polled == lastCall.fn = "poll"
Submitted == lastCall.fn = "submit"
\* The results endpoint is really asked: no mock data, and the credentials are set.
RealPoll == ~cfg.use_mock /\ cfg.results_url /\ cfg.api_key /\ cfg.user_id
Answered == lastCall.resp.http = "ok" /\ lastCall.resp.json

FailureStates == {"FAILED", "TERMINATED"}
MockAnswer == cfg.use_mock \/ ~cfg.results_url

\* C2, as stated: poll returns None for every remote state in {PENDING, QUEUED,
\* RUNNING}, and a match list only when the remote state is DONE.
C2_PollContract ==
    Polled =>
        /\ lastCall.resp.state \in NotReadyStates => lastCall.out = RNone
        /\ lastCall.out.kind = "list" => lastCall.resp.state = "DONE"

\* C2, amended: with mock data off and the results URL, API key and user id set,
\* poll returns None for every remote state in {PENDING, QUEUED, RUNNING} and a
\* match list (which may be empty) only when the endpoint answered with state
\* DONE; with GUMLOOP_USE_MOCK on or GUMLOOP_RESULTS_URL unset it returns the
\* four mock matches whatever the remote state.
C2_PollContractRealPoll ==
    Polled =>
        /\ RealPoll =>
              /\ lastCall.resp.state \in NotReadyStates => lastCall.out = RNone
              /\ lastCall.out.kind = "list" =>
                    Answered /\ lastCall.resp.state = "DONE"
        /\ MockAnswer => lastCall.out = RList(get_mock_gumloop_data)

C2_Witness ==
    /\ Polled /\ RealPoll /\ Answered
    /\ lastCall.resp.state = "DONE"
    /\ lastCall.out.kind = "list" /\ Len(lastCall.out.matches) = 2

\* C3, as stated: when the endpoint is really asked and answers with a terminal
\* state other than DONE, poll raises.
C3_FailureRaises ==
    (Polled /\ RealPoll /\ Answered /\ lastCall.resp.state \in FailureStates)
        => lastCall.out.kind = "raise"

\* C3, amended: when the endpoint is really asked and answers with a state that
\* is neither DONE nor one of {PENDING, QUEUED, RUNNING}, poll returns None, the
\* value it returns for a job that is not ready, and raises nothing.
C3_FailureReturnsNone ==
    (Polled /\ RealPoll /\ Answered
        /\ lastCall.resp.state \notin NotReadyStates \cup {"DONE"})
        => lastCall.out = RNone

C3_Witness ==
    /\ Polled /\ RealPoll /\ Answered
    /\ lastCall.resp.state = "FAILED"
    /\ lastCall.resp.shape = "object_matches" /\ lastCall.resp.matches # <<>>
    /\ lastCall.out = RNone

\* The success payloads that are not a JSON object with a "matches" field.
MalformedShapes == PayloadShapes \ {"object_matches"}

\* C4, as stated: when the state is DONE and the payload is malformed, poll raises.
C4_MalformedRaises ==
    (Polled /\ RealPoll /\ Answered /\ lastCall.resp.state = "DONE"
        /\ lastCall.resp.shape \in MalformedShapes)
        => lastCall.out.kind = "raise"

\* C4, amended: when the state is DONE and the payload is malformed, poll never
\* raises and never returns a non-empty list: it returns an empty list when the
\* output is a JSON object without "matches", and None otherwise.
C4_MalformedReturnsNoneOrEmpty ==
    (Polled /\ RealPoll /\ Answered /\ lastCall.resp.state = "DONE"
        /\ lastCall.resp.shape \in MalformedShapes)
        => lastCall.out =
              IF lastCall.resp.shape = "object_no_matches" THEN RList(<<>>) ELSE RNone

C4_Witness ==
    /\ Polled /\ RealPoll /\ Answered /\ lastCall.resp.state = "DONE"
    /\ lastCall.resp.shape = "invalid_json"
    /\ lastCall.out = RNone

ConfigComplete == cfg.base_url /\ cfg.api_key /\ cfg.user_id /\ cfg.saved_item_id
RemoteAccepted ==
    lastCall.resp.http = "ok" /\ lastCall.resp.json /\ lastCall.resp.has_run_id

\* C5, as stated: submit fails, and returns no run_id, whenever required
\* configuration is missing or the remote call errors; a run_id is returned only
\* after a successful remote submission.
C5_SubmitFails ==
    Submitted =>
        /\ (~ConfigComplete \/ ~RemoteAccepted) =>
              lastCall.out.kind = "raise" /\ lastCall.http = 500
        /\ lastCall.out.kind = "str" => ConfigComplete /\ RemoteAccepted

\* C5, amended: with GUMLOOP_USE_MOCK off, submit fails (the endpoint answers
\* 500) and returns no run_id whenever required configuration is missing or the
\* remote call errors, and a run_id is returned only after a successful remote
\* submission; with GUMLOOP_USE_MOCK on it returns "mock_run_id" without reading
\* the configuration or calling the remote service.
C5_SubmitFailsUnlessMock ==
    Submitted =>
        /\ ~cfg.use_mock =>
              /\ (~ConfigComplete \/ ~RemoteAccepted) =>
                    lastCall.out.kind = "raise" /\ lastCall.http = 500
              /\ lastCall.out.kind = "str" =>
                    ConfigComplete /\ RemoteAccepted /\ lastCall.http = 200
        /\ cfg.use_mock => lastCall.out = RStr("mock_run_id") /\ lastCall.http = 200

C5_Witness ==
    /\ Submitted /\ ~cfg.use_mock
    /\ ~cfg.api_key /\ RemoteAccepted
    /\ lastCall.out = RRaise("ValueError") /\ lastCall.http = 500

(***************************************************************************)
(* SpecTask: process_video_task (main.py:97-180), one background run.      *)
(***************************************************************************)
\* main.py:122.
max_retries == 30

\* update_project_status (db.py:45-52): update_one without upsert changes
\* nothing when no document matches; "error" is set only when it is non-empty.
update_project_status_Unwritten(p, status, error) ==
    IF status = "failed" THEN p
    ELSE [p EXCEPT !.status = status]

update_project_status(p, status, error) ==
    IF ~p.exists THEN p
    ELSE [p EXCEPT !.status = status,
                   !.error = IF error # "" THEN error ELSE @]

InitTask ==
    /\ cfg \in Configs
    /\ lastCall = NoCall
    /\ pvt = [pc |-> "idle", i |-> 0, attempts |-> 0, temp_dir |-> FALSE,
              made_temp |-> FALSE, run_id |-> "-", all_not_ready |-> TRUE,
              matches |-> RNone, exc |-> "-"]
    /\ project \in [exists : BOOLEAN, status : {"new"}, error : {"-"}]
    /\ render = [pc |-> "idle", i |-> 0, polls |-> 0, all_not_ready |-> TRUE,
                 out |-> "-"]
    /\ InitMediaIdle

\* main.py:98-99.
T_Start ==
    /\ pvt.pc = "idle"
    /\ project' = update_project_status(project, "processing", "")
    /\ pvt' = [pvt EXCEPT !.pc = "get_project"]
    /\ UNCHANGED <<mediaVars, orchVars, render>>

\* main.py:101-108: a missing project ends the task before the temporary
\* directory is made; otherwise mkdtemp makes it.
T_GetProject ==
    /\ pvt.pc = "get_project"
    /\ IF ~project.exists
       THEN /\ project' = update_project_status(project, "failed", "Project not found")
            /\ pvt' = [pvt EXCEPT !.pc = "done"]
       ELSE /\ pvt' = [pvt EXCEPT !.pc = "submit", !.temp_dir = TRUE,
                                  !.made_temp = TRUE]
            /\ UNCHANGED project
    /\ UNCHANGED <<mediaVars, orchVars, render>>

\* main.py:118: the pipeline is started; an exception goes to line 174.
T_Submit ==
    /\ pvt.pc = "submit"
    /\ \E s \in SubmitResponses :
          LET out == start_gumloop_pipeline(cfg, s)
          IN  pvt' = IF out.kind = "raise"
                     THEN [pvt EXCEPT !.pc = "except", !.exc = out.val]
                     ELSE [pvt EXCEPT !.pc = "poll", !.run_id = out.val, !.i = 0]
    /\ UNCHANGED <<mediaVars, orchVars, project, render>>

\* One pass of the poll loop's body, main.py:123-129, and the test after the
\* loop, main.py:131-132.  The job's state at the time of the attempt is r.state.
PollLoopStep(t, c, r) ==
    IF t.i < max_retries
    THEN LET out == get_gumloop_results_call(1, c, r)                \* 125
             seen == [t EXCEPT !.attempts = @ + 1,
                               !.all_not_ready =
                                   @ /\ r.http = "ok" /\ r.json
                                     /\ r.state \in NotReadyStates]
         IN  CASE out.kind = "raise" ->
                    [seen EXCEPT !.pc = "except", !.exc = out.val]   \* to 174
               [] out.kind = "list" ->
                    [seen EXCEPT !.pc = "got_matches", !.matches = out] \* 126-128
               [] OTHER -> [seen EXCEPT !.i = @ + 1]                 \* 129
    ELSE [t EXCEPT !.pc = "except", !.exc = "timeout"]               \* 131-132

T_Poll ==
    /\ pvt.pc = "poll"
    /\ \E r \in Responses : pvt' = PollLoopStep(pvt, cfg, r)
    /\ UNCHANGED <<mediaVars, orchVars, project, render>>

\* main.py:174-176.
T_Except ==
    /\ pvt.pc = "except"
    /\ project' = update_project_status(project, "failed", pvt.exc)
    /\ pvt' = [pvt EXCEPT !.pc = "finally"]
    /\ UNCHANGED <<mediaVars, orchVars, render>>

\* main.py:177-180: shutil.rmtree(temp_dir).
T_Finally ==
    /\ pvt.pc = "finally"
    /\ pvt' = [pvt EXCEPT !.pc = "done", !.temp_dir = FALSE]
    /\ UNCHANGED <<mediaVars, orchVars, project, render>>

NextTask == T_Start \/ T_GetProject \/ T_Submit \/ T_Poll \/ T_Except \/ T_Finally

SpecTask == InitTask /\ [][NextTask]_vars

\* C1: when every poll attempt of process_video_task finds the job in a state
\* that is not terminal, the task ends after exactly max_retries attempts, with
\* the timeout error.
C1_PollsExactlyMaxRetries ==
    (pvt.pc = "done" /\ pvt.attempts > 0 /\ pvt.all_not_ready)
        => (pvt.attempts = max_retries /\ project.error = "timeout")

(***************************************************************************)
(* SpecRender: wait_for_render_complete (video_processing.py:42-80).       *)
(***************************************************************************)
\* video_processing.py:183 and 272 (and the default of line 42).
render_timeout == 600
\* video_processing.py:51 and 74: one poll every five seconds.
render_interval == 5
\* video_processing.py:51.
max_polls == render_timeout \div render_interval

\* What GET /renders/{id} answers (video_processing.py:54-63).  An HTTP status
\* error is an httpx.HTTPError too (line 76).
RenderStatuses == {"planned", "rendering", "succeeded", "failed", "absent"}
RenderResponses ==
    {[http |-> "error", json |-> TRUE, status |-> "absent"],
     [http |-> "ok", json |-> FALSE, status |-> "absent"]}
    \cup {[http |-> "ok", json |-> TRUE, status |-> st] : st \in RenderStatuses}

InitRender ==
    /\ cfg = [use_mock |-> FALSE, base_url |-> TRUE, results_url |-> TRUE,
              api_key |-> TRUE, user_id |-> TRUE, saved_item_id |-> TRUE]
    /\ lastCall = NoCall
    /\ InitTaskIdle
    /\ InitMediaIdle

\* video_processing.py:50-52.
R_Call ==
    /\ render.pc = "idle"
    /\ render' = [render EXCEPT !.pc = "loop", !.i = 0]
    /\ UNCHANGED <<mediaVars, orchVars, pvt, project>>

\* One pass of the loop body, video_processing.py:52-78.
RenderLoopStep(w, resp) ==
    LET polled == [w EXCEPT !.polls = @ + 1,
                            !.all_not_ready =
                                @ /\ ~(resp.http = "ok" /\ resp.json
                                       /\ resp.status \in {"succeeded", "failed"})]
    IN  CASE resp.http = "error" -> [polled EXCEPT !.i = @ + 1]          \* 76-78
          [] ~resp.json -> [polled EXCEPT !.pc = "raised", !.out = "ValueError"] \* 60
          [] resp.status = "succeeded" ->
                [polled EXCEPT !.pc = "returned", !.out = "url"]         \* 65-68
          [] resp.status = "failed" ->
                [polled EXCEPT !.pc = "raised", !.out = "failed"]        \* 69-71
          [] OTHER -> [polled EXCEPT !.i = @ + 1]                        \* 73-74

R_Poll ==
    /\ render.pc = "loop"
    /\ render.i < max_polls
    /\ \E resp \in RenderResponses : render' = RenderLoopStep(render, resp)
    /\ UNCHANGED <<mediaVars, orchVars, pvt, project>>

\* video_processing.py:80: the loop ran out.
R_Timeout ==
    /\ render.pc = "loop"
    /\ render.i = max_polls
    /\ render' = [render EXCEPT !.pc = "raised", !.out = "timeout"]
    /\ UNCHANGED <<mediaVars, orchVars, pvt, project>>

NextRender == R_Call \/ R_Poll \/ R_Timeout

SpecRender == InitRender /\ [][NextRender]_vars

\* The render half of C1: a render that is never seen succeeded or failed is
\* polled exactly max_polls times and then raises the timeout; no render is
\* polled more than max_polls times.
RenderPollsExactlyMaxPolls ==
    /\ render.polls <= max_polls
    /\ (render.pc \in {"raised", "returned"} /\ render.all_not_ready
            /\ render.out # "ValueError")
          => (render.polls = max_polls /\ render.out = "timeout")
    /\ render.out = "timeout" => render.polls = max_polls

RenderTimedOut == render.out = "timeout" /\ render.polls = 120

(***************************************************************************)
(* Timestamp Parser.  A string is a sequence of one-character strings.     *)
(* The alphabet of the model has digits, ":", "-", " " and letters, so a   *)
(* component is accepted by float() exactly when, stripped of blanks, it   *)
(* is a non-empty run of digits, and its value is an integer.              *)
(***************************************************************************)
Digits == {"0", "1", "2", "3", "4", "5", "6", "7", "8", "9"}

DigitValue(ch) ==
    CASE ch = "0" -> 0 [] ch = "1" -> 1 [] ch = "2" -> 2 [] ch = "3" -> 3
      [] ch = "4" -> 4 [] ch = "5" -> 5 [] ch = "6" -> 6 [] ch = "7" -> 7
      [] ch = "8" -> 8 [] ch = "9" -> 9

\* str.split(sep): the pieces between the separators, empty pieces kept.
RECURSIVE SplitAcc(_, _, _)
SplitAcc(str, sep, piece) ==
    IF str = <<>> THEN <<piece>>
    ELSE IF Head(str) = sep THEN <<piece>> \o SplitAcc(Tail(str), sep, <<>>)
    ELSE SplitAcc(Tail(str), sep, Append(piece, Head(str)))

Split(str, sep) == SplitAcc(str, sep, <<>>)

\* str.strip(): leading and trailing blanks removed.
RECURSIVE LStrip(_)
LStrip(str) ==
    IF str # <<>> /\ Head(str) = " " THEN LStrip(Tail(str)) ELSE str

RECURSIVE RStrip(_)
RStrip(str) ==
    IF str # <<>> /\ str[Len(str)] = " "
    THEN RStrip(SubSeq(str, 1, Len(str) - 1)) ELSE str

Strip(str) == RStrip(LStrip(str))

\* float(str): whether it converts, and to what.
IsFloat(str) ==
    LET t == Strip(str) IN t # <<>> /\ \A k \in 1..Len(t) : t[k] \in Digits

RECURSIVE DigitsValue(_)
DigitsValue(t) ==
    IF t = <<>> THEN 0
    ELSE 10 * DigitsValue(SubSeq(t, 1, Len(t) - 1)) + DigitValue(t[Len(t)])

Float(str) == DigitsValue(Strip(str))

\* The result of a parse: the seconds, or ValueError.
ParseError == [ok |-> FALSE, start |-> 0, end |-> 0, has_end |-> FALSE]
Parsed(start, end, has_end) ==
    [ok |-> TRUE, start |-> start, end |-> end, has_end |-> has_end]

\* parse_time, the inner function of gumloop.parse_timestamp (gumloop.py:182-189):
\* two or three components, each a float.
gl_parse_time(str) ==
    LET time_parts == Split(Strip(str), ":")
    IN  IF \E k \in 1..Len(time_parts) : ~IsFloat(time_parts[k])
        THEN ParseError                                              \* 183
        ELSE IF Len(time_parts) = 2
        THEN Parsed(Float(time_parts[1]) * 60 + Float(time_parts[2]), 0, FALSE)
        ELSE IF Len(time_parts) = 3
        THEN Parsed(Float(time_parts[1]) * 3600 + Float(time_parts[2]) * 60
                        + Float(time_parts[3]), 0, FALSE)
        ELSE ParseError                                              \* 188-189

\* gumloop.parse_timestamp (gumloop.py:179-193): "start-end"; the end is None
\* when there is no "-"; parts after the second are ignored.
gl_parse_timestamp(str) ==
    LET parts == Split(str, "-")
        start == gl_parse_time(parts[1])
    IN  IF ~start.ok THEN ParseError
        ELSE IF Len(parts) > 1
        THEN LET end == gl_parse_time(parts[2])
             IN  IF ~end.ok THEN ParseError
                 ELSE Parsed(start.start, end.start, TRUE)
        ELSE Parsed(start.start, 0, FALSE)

\* to_seconds, the inner function of video_processing.parse_timestamp
\* (video_processing.py:30-37): with one component, or more than three, the
\* first component alone is converted.
vp_to_seconds(str) ==
    LET parts == Split(Strip(str), ":")
    IN  IF Len(parts) = 3
        THEN IF \A k \in 1..3 : IsFloat(parts[k])
             THEN Parsed(Float(parts[1]) * 3600 + Float(parts[2]) * 60
                             + Float(parts[3]), 0, FALSE)
             ELSE ParseError
        ELSE IF Len(parts) = 2
        THEN IF \A k \in 1..2 : IsFloat(parts[k])
             THEN Parsed(Float(parts[1]) * 60 + Float(parts[2]), 0, FALSE)
             ELSE ParseError
        ELSE IF IsFloat(parts[1]) THEN Parsed(Float(parts[1]), 0, FALSE)
             ELSE ParseError

\* video_processing.parse_timestamp (video_processing.py:24-39): unpacking the
\* split into two names raises ValueError unless there are exactly two parts.
vp_parse_timestamp(str) ==
    LET parts == Split(str, "-")
    IN  IF Len(parts) # 2 THEN ParseError                            \* 28
        ELSE LET start == vp_to_seconds(parts[1])
                 end == vp_to_seconds(parts[2])
             IN  IF start.ok /\ end.ok
                 THEN Parsed(start.start, end.start, TRUE)
                 ELSE ParseError

(***************************************************************************)
(* SpecCreate: one create-video request, served either by POST             *)
(* /create_video (main.py:183-276) or by the Creatomate builder            *)
(* create_video_from_matches (video_processing.py:83-186).                 *)
(***************************************************************************)
MaxMatches == 2

notCreate == <<orchVars, taskVars, concatVars, sub, laterVars>>

ts_range       == <<"0", ":", "1", "3", "-", "0", ":", "1", "7">>
ts_range_short == <<"0", ":", "0", "1", "-", "0", ":", "0", "3">>
ts_reversed    == <<"0", ":", "0", "5", "-", "0", ":", "0", "2">>
ts_point       == <<"0", ":", "0", "5">>
ts_malformed   == <<"a", "b", "c", "-", "1", "2">>

Timestamps == {ts_range, ts_range_short, ts_reversed, ts_point, ts_malformed}

ClipNames == {"a.mp4", "b.mp4"}

\* A match as the request carries it; "" and <<>> stand for a field that is
\* absent, None or empty, which the handlers do not tell apart.
Matches == [matched_clip : ClipNames \cup {""},
            clip_timestamp : Timestamps \cup {<<>>}]

MatchLists == SeqsUpTo(Matches, MaxMatches)

MissingFields(m) == m.matched_clip = "" \/ m.clip_timestamp = <<>>

\* The files of the scratch directory: <<kind, clip, segment>>.
SourceFile(clip) == <<"source", clip, 0>>
CutFile(seg) == <<"cut_segment", "", seg>>
FinalFile == <<"final_video", "", 0>>

\* One pass of the loop body, main.py:199-246.  dl_ok, cut_ok and up_ok are
\* the outcomes of download_from_s3, cut_clip and upload_file_to_s3.
create_video_match(c, m, dl_ok, cut_ok, up_ok) ==
    LET seg == c.i
        raise(st, who) == [st EXCEPT !.pc = "except", !.exc = who]
    IN  IF MissingFields(m) THEN [c EXCEPT !.i = @ + 1]              \* 204-206
        ELSE IF m.matched_clip \notin c.downloaded_clips /\ ~dl_ok
        THEN raise(c, "download_from_s3")                            \* 216
        ELSE
          LET d == [c EXCEPT !.downloaded_clips = @ \cup {m.matched_clip},
                            !.temp_files = @ \cup {SourceFile(m.matched_clip)}]
              times == gl_parse_timestamp(m.clip_timestamp)          \* 223
          IN  IF ~times.ok THEN raise(d, "parse_timestamp")
              ELSE IF ~times.has_end THEN [d EXCEPT !.i = @ + 1]     \* 227-229
              ELSE IF ~cut_ok THEN raise(d, "cut_clip")              \* 233
              ELSE
                LET e == [d EXCEPT !.temp_files = @ \cup {CutFile(seg)}]
                IN  IF ~up_ok THEN raise(e, "upload_file_to_s3")     \* 238
                    ELSE [e EXCEPT
                            !.cut_clip_s3_urls =
                                Append(@, [segment |-> seg,
                                           source |-> m.matched_clip,
                                           timestamp |-> m.clip_timestamp]),
                            !.cut_clip_paths = Append(@, seg),
                            !.i = @ + 1]

InitCreate ==
    /\ cfg = [use_mock |-> FALSE, base_url |-> TRUE, results_url |-> TRUE,
              api_key |-> TRUE, user_id |-> TRUE, saved_item_id |-> TRUE]
    /\ lastCall = NoCall
    /\ InitTaskIdle
    /\ matches \in MatchLists
    /\ cv = CvIdle
    /\ cm = CmIdle
    /\ InitConcatIdle
    /\ sub = SubIdle
    /\ InitLaterIdle

\* main.py:189: tempfile.mkdtemp, then the loop is entered.
CV_Start ==
    /\ cv.pc = "idle" /\ cm.pc = "idle"
    /\ cv' = [cv EXCEPT !.pc = "loop", !.i = 1, !.temp_dir = TRUE]
    /\ UNCHANGED <<notCreate, matches, cm>>

CV_Match ==
    /\ cv.pc = "loop" /\ cv.i <= Len(matches)
    /\ \E dl_ok, cut_ok, up_ok \in BOOLEAN :
          cv' = create_video_match(cv, matches[cv.i], dl_ok, cut_ok, up_ok)
    /\ UNCHANGED <<notCreate, matches, cm>>

\* main.py:248-249.
CV_LoopEnd ==
    /\ cv.pc = "loop" /\ cv.i > Len(matches)
    /\ cv' = IF cv.cut_clip_paths = <<>>
             THEN [cv EXCEPT !.pc = "except",
                             !.exc = "No valid clips were processed"]
             ELSE [cv EXCEPT !.pc = "assemble"]
    /\ UNCHANGED <<notCreate, matches, cm>>

\* main.py:252-254: assemble_video writes final_video.mp4 or raises.
CV_Assemble ==
    /\ cv.pc = "assemble"
    /\ \E ok \in BOOLEAN :
          cv' = IF ok
                THEN [cv EXCEPT !.pc = "upload",
                                !.temp_files = @ \cup {FinalFile}]
                ELSE [cv EXCEPT !.pc = "except", !.exc = "assemble_video"]
    /\ UNCHANGED <<notCreate, matches, cm>>

\* main.py:257-268: the upload of the final video, then the response.
CV_Upload ==
    /\ cv.pc = "upload"
    /\ \E ok \in BOOLEAN :
          cv' = IF ok
                THEN [cv EXCEPT !.pc = "finally", !.status = 200]
                ELSE [cv EXCEPT !.pc = "except", !.exc = "upload_file_to_s3"]
    /\ UNCHANGED <<notCreate, matches, cm>>

\* main.py:270-272: every exception becomes HTTP 500.
CV_Except ==
    /\ cv.pc = "except"
    /\ cv' = [cv EXCEPT !.pc = "finally", !.status = 500]
    /\ UNCHANGED <<notCreate, matches, cm>>

\* main.py:273-276: shutil.rmtree(temp_dir).
CV_Finally ==
    /\ cv.pc = "finally"
    /\ cv' = [cv EXCEPT !.pc = "done", !.temp_dir = FALSE, !.temp_files = {}]
    /\ UNCHANGED <<notCreate, matches, cm>>


\* One pass of the loop body of the Creatomate builder,
\* video_processing.py:100-139: a timestamp that does not parse, or a
\* duration that is not positive, skips the match.
creatomate_match(c, m) ==
    LET next == [c EXCEPT !.i = @ + 1]
    IN  IF MissingFields(m) THEN next                                \* 104-106
        ELSE
          LET t == vp_parse_timestamp(m.clip_timestamp)              \* 113
              duration == t.end - t.start
          IN  IF ~t.ok THEN next                                     \* 137-139
              ELSE IF duration <= 0 THEN next                        \* 116-118
              ELSE [next EXCEPT
                      !.elements =
                          Append(@, [source |-> m.matched_clip,
                                     trim_start |-> t.start,
                                     trim_duration |-> duration,
                                     time |-> c.current_time]),
                      !.current_time = @ + duration]

\* video_processing.py:91-98.
CM_Start ==
    /\ cv.pc = "idle" /\ cm.pc = "idle"
    /\ cm' = IF matches = <<>>
             THEN [cm EXCEPT !.pc = "done", !.out = "No matches provided"]
             ELSE [cm EXCEPT !.pc = "loop", !.i = 1]
    /\ UNCHANGED <<notCreate, matches, cv>>

CM_Match ==
    /\ cm.pc = "loop" /\ cm.i <= Len(matches)
    /\ cm' = creatomate_match(cm, matches[cm.i])
    /\ UNCHANGED <<notCreate, matches, cv>>

\* video_processing.py:141-142.
CM_LoopEnd ==
    /\ cm.pc = "loop" /\ cm.i > Len(matches)
    /\ cm' = IF cm.elements = <<>>
             THEN [cm EXCEPT !.pc = "done", !.out = "No valid clips to process"]
             ELSE [cm EXCEPT !.pc = "submit"]
    /\ UNCHANGED <<notCreate, matches, cv>>

\* video_processing.py:162-177: the render request and its id.
CM_Submit ==
    /\ cm.pc = "submit"
    /\ \E answer \in {"id", "no_id", "status_error"} :
          cm' = CASE answer = "id" -> [cm EXCEPT !.pc = "render"]
                  [] answer = "no_id" ->
                       [cm EXCEPT !.pc = "done",
                                  !.out = "No render ID returned from Creatomate"]
                  [] OTHER ->
                       [cm EXCEPT !.pc = "done", !.out = "Creatomate API error"]
    /\ UNCHANGED <<notCreate, matches, cv>>

\* video_processing.py:182-186: wait_for_render_complete returns the url or
\* raises.
CM_Render ==
    /\ cm.pc = "render"
    /\ \E answer \in {"video_url", "render_error"} :
          cm' = [cm EXCEPT !.pc = "done", !.out = answer]
    /\ UNCHANGED <<notCreate, matches, cv>>

NextCreate ==
    \/ CV_Start \/ CV_Match \/ CV_LoopEnd \/ CV_Assemble \/ CV_Upload
    \/ CV_Except \/ CV_Finally
    \/ CM_Start \/ CM_Match \/ CM_LoopEnd \/ CM_Submit \/ CM_Render

SpecCreate == InitCreate /\ [][NextCreate]_vars

\* The positions of the matches a handler that skips the unusable ones cuts.
RECURSIVE Ascending(_)
Ascending(S) ==
    IF S = {} THEN <<>>
    ELSE LET least == CHOOSE x \in S : \A y \in S : x <= y
         IN  <<least>> \o Ascending(S \ {least})

MalformedFor(parse(_), m) ==
    ~MissingFields(m) /\ ~parse(m.clip_timestamp).ok

CutFor(parse(_), m) ==
    /\ ~MissingFields(m)
    /\ parse(m.clip_timestamp).ok
    /\ parse(m.clip_timestamp).has_end
    /\ parse(m.clip_timestamp).end > parse(m.clip_timestamp).start

EndpointCuts(m) ==
    /\ ~MissingFields(m)
    /\ gl_parse_timestamp(m.clip_timestamp).ok
    /\ gl_parse_timestamp(m.clip_timestamp).has_end

BuilderCuts(m) == CutFor(vp_parse_timestamp, m)

EndpointCutIndices ==
    Ascending({k \in 1..Len(matches) : EndpointCuts(matches[k])})

BuilderCutIndices ==
    Ascending({k \in 1..Len(matches) : BuilderCuts(matches[k])})

HasMalformed(parse(_)) ==
    \E k \in 1..Len(matches) : MalformedFor(parse, matches[k])

StorageOrEncodeFailure ==
    {"download_from_s3", "cut_clip", "upload_file_to_s3", "assemble_video"}

\* C6: when POST /create_video has ended and the only fault is a match with a
\* malformed timestamp next to a match that can be cut (no download, cut,
\* assemble or upload failed), the request succeeds and the segments cut are
\* exactly the well-formed matches, in order.
C6_MalformedMatchSkipped ==
    ( /\ cv.pc = "done"
      /\ HasMalformed(gl_parse_timestamp)
      /\ \E k \in 1..Len(matches) : EndpointCuts(matches[k])
      /\ cv.exc \notin StorageOrEncodeFailure )
        => ( /\ cv.status = 200
             /\ cv.cut_clip_paths = EndpointCutIndices )

\* The same statement for the Creatomate builder, which does skip: the
\* timeline holds exactly the matches that parse with a positive duration.
BuilderSkipsMalformedMatch ==
    (cm.pc \in {"submit", "render", "done"} /\ HasMalformed(vp_parse_timestamp))
        => ( /\ Len(cm.elements) = Len(BuilderCutIndices)
             /\ \A k \in 1..Len(cm.elements) :
                   cm.elements[k].source =
                       matches[BuilderCutIndices[k]].matched_clip )

BuilderSkippedAndRendered ==
    /\ cm.pc = "done" /\ cm.out = "video_url"
    /\ HasMalformed(vp_parse_timestamp)

(***************************************************************************)
(* SpecConcat: the Sequencer.  One call of fast_concatenate_videos         *)
(* (video_processing.py:310-333), of concatenate_videos_ffmpeg             *)
(* (video_processing.py:396-428), of merge_video_clips                     *)
(* (services/video_processing.py:114-148), or of export_project's clip     *)
(* loop followed by the merge (routers/export.py:99-134, 169-175).         *)
(***************************************************************************)
MaxSegments == 3

notConcat == <<orchVars, taskVars, createVars, sub, laterVars>>

\* A path is <<directory, name>>; the directory "" is a relative path.
Paths == {<<"", "a.mp4">>, <<"/cwd", "a.mp4">>, <<"", "b.mp4">>}

\* os.path.abspath: a relative path is joined to the working directory.
abspath(path) == IF path[1] = "" THEN <<"/cwd", path[2]>> ELSE path

PathLists == SeqsUpTo(Paths, MaxSegments)

\* The clips of a project document: the asset each shows and its order field.
AssetIds == {"asset_a", "asset_b"}
Orders == {0, 1}
ClipDocs == [asset_id : AssetIds, order : Orders]
ClipDocLists == SeqsUpTo(ClipDocs, MaxSegments)

\* f.write(f"file '{path}'\n"): one line appended to the list being written.
write_line_Dedup(lines, path) ==
    IF \E k \in 1..Len(lines) : lines[k] = path THEN lines
    ELSE Append(lines, path)

write_line(lines, path) == Append(lines, path)

\* The codec option of the concat commands, video_processing.py:328 and 415.
stream_copy == "-c copy"

\* ffmpeg -f concat -i list -c copy: the output plays the listed files in the
\* order of the list; a relative entry is resolved against the directory of
\* the list, which is the working directory for temp_concat_list.txt.
ffmpeg_concat(lines) == [k \in 1..Len(lines) |-> abspath(lines[k])]

\* concatenate_videoclips(clips, method="chain"): the clips played in list
\* order.
concatenate_videoclips(clips) == clips

\* sorted(clips, key=lambda c: c.get("order", 0)): a stable sort.
RECURSIVE InsertByOrder(_, _)
InsertByOrder(sorted, clip) ==
    IF sorted = <<>> THEN <<clip>>
    ELSE IF sorted[Len(sorted)].order <= clip.order THEN Append(sorted, clip)
    ELSE Append(InsertByOrder(SubSeq(sorted, 1, Len(sorted) - 1), clip),
                sorted[Len(sorted)])

RECURSIVE SortedByOrder(_)
SortedByOrder(clips) ==
    IF clips = <<>> THEN <<>>
    ELSE InsertByOrder(SortedByOrder(SubSeq(clips, 1, Len(clips) - 1)),
                       clips[Len(clips)])

InitConcat ==
    /\ cfg = [use_mock |-> FALSE, base_url |-> TRUE, results_url |-> TRUE,
              api_key |-> TRUE, user_id |-> TRUE, saved_item_id |-> TRUE]
    /\ lastCall = NoCall
    /\ InitTaskIdle
    /\ InitCreateIdle
    /\ \/ \E paths \in PathLists : cc = [CcIdle EXCEPT !.video_paths = paths]
       \/ \E docs \in ClipDocLists : cc = [CcIdle EXCEPT !.project_clips = docs]
    /\ fs = FsEmpty
    /\ sub = SubIdle
    /\ InitLaterIdle

\* video_processing.py:320-321: open(list_file, 'w').
FC_Open ==
    /\ cc.pc = "idle" /\ cc.project_clips = <<>>
    /\ cc' = [cc EXCEPT !.fn = "fast_concatenate_videos", !.pc = "write", !.k = 1]
    /\ fs' = [fs EXCEPT !.list_file = Present(<<>>)]
    /\ UNCHANGED notConcat

\* video_processing.py:322-323.
FC_Write ==
    /\ cc.fn = "fast_concatenate_videos" /\ cc.pc = "write"
    /\ cc.k <= Len(cc.video_paths)
    /\ fs' = [fs EXCEPT !.list_file =
                 Present(write_line(@.lines, cc.video_paths[cc.k]))]
    /\ cc' = [cc EXCEPT !.k = @ + 1]
    /\ UNCHANGED notConcat

\* video_processing.py:326-330: subprocess.run(cmd, check=True) raises
\* CalledProcessError when ffmpeg exits with an error.  commands keeps the
\* codec option of every ffmpeg command the call runs.
FC_Run ==
    /\ cc.fn = "fast_concatenate_videos" /\ cc.pc = "write"
    /\ cc.k > Len(cc.video_paths)
    /\ \E returncode \in {0, 1} :
          IF returncode = 0
          THEN /\ fs' = [fs EXCEPT !.output =
                            Present(ffmpeg_concat(fs.list_file.lines))]
               /\ cc' = [cc EXCEPT !.pc = "remove",
                                   !.commands = Append(@, stream_copy)]
          ELSE /\ cc' = [cc EXCEPT !.pc = "done", !.returncode = returncode,
                                   !.commands = Append(@, stream_copy),
                                   !.exc = "CalledProcessError"]
               /\ UNCHANGED fs
    /\ UNCHANGED notConcat

\* video_processing.py:333: os.remove(list_file).
FC_Remove ==
    /\ cc.fn = "fast_concatenate_videos" /\ cc.pc = "remove"
    /\ fs' = [fs EXCEPT !.list_file = Absent]
    /\ cc' = [cc EXCEPT !.pc = "done"]
    /\ UNCHANGED notConcat

\* video_processing.py:401-402: open(output_path + ".concat.txt", 'w').
FF_Open ==
    /\ cc.pc = "idle" /\ cc.project_clips = <<>>
    /\ cc' = [cc EXCEPT !.fn = "concatenate_videos_ffmpeg", !.pc = "write",
                        !.k = 1]
    /\ fs' = [fs EXCEPT !.concat_file = Present(<<>>)]
    /\ UNCHANGED notConcat

\* video_processing.py:403-406: the absolute path of each video, in order.
FF_Write ==
    /\ cc.fn = "concatenate_videos_ffmpeg" /\ cc.pc = "write"
    /\ cc.k <= Len(cc.video_paths)
    /\ fs' = [fs EXCEPT !.concat_file =
                 Present(write_line(@.lines, abspath(cc.video_paths[cc.k])))]
    /\ cc' = [cc EXCEPT !.k = @ + 1]
    /\ UNCHANGED notConcat

\* video_processing.py:408-419: subprocess.run without check keeps the return code.
FF_Run ==
    /\ cc.fn = "concatenate_videos_ffmpeg" /\ cc.pc = "write"
    /\ cc.k > Len(cc.video_paths)
    /\ \E returncode \in {0, 1} :
          /\ cc' = [cc EXCEPT !.pc = "remove", !.returncode = returncode,
                              !.commands = Append(@, stream_copy)]
          /\ fs' = IF returncode = 0
                   THEN [fs EXCEPT !.output =
                             Present(ffmpeg_concat(fs.concat_file.lines))]
                   ELSE fs
    /\ UNCHANGED notConcat

\* video_processing.py:421-426: the concat file is removed, then the return
\* code is tested.
FF_Remove ==
    /\ cc.fn = "concatenate_videos_ffmpeg" /\ cc.pc = "remove"
    /\ fs' = [fs EXCEPT !.concat_file = Absent]
    /\ cc' = [cc EXCEPT !.pc = "done",
                        !.exc = IF cc.returncode # 0 THEN "FFmpeg concat error"
                                ELSE @]
    /\ UNCHANGED notConcat

\* The local path of the i-th clip of an export, export.py:125.
clip_path(i) == <<"/tmp", "clip_" \o ToString(i) \o ".mp4">>

\* VideoFileClip(path): what the file at the path shows: the asset downloaded
\* to it, or the file itself.
VideoFileClip(c, path) ==
    IF \E pr \in c.held : pr[1] = path
    THEN (CHOOSE pr \in c.held : pr[1] = path)[2]
    ELSE abspath(path)

\* services/video_processing.py:120-130: no path raises, one path is written
\* alone, more are loaded one by one.
merge_video_clips_start(c) ==
    IF Len(c.video_paths) = 0
    THEN [c EXCEPT !.pc = "done", !.exc = "No video paths provided"]
    ELSE [c EXCEPT !.pc = "load", !.k = 1]

MV_Start ==
    /\ cc.pc = "idle" /\ cc.project_clips = <<>>
    /\ cc' = merge_video_clips_start([cc EXCEPT !.fn = "merge_video_clips"])
    /\ UNCHANGED <<fs, notConcat>>

\* services/video_processing.py:122-124 and 133-138: VideoFileClip(path),
\* resized, without audio, appended; a file that does not open raises.
MV_Load ==
    /\ cc.pc = "load" /\ cc.k <= Len(cc.video_paths)
    /\ \E opened \in BOOLEAN :
          cc' = IF opened
                THEN [cc EXCEPT !.k = @ + 1,
                                !.resized_clips =
                                    Append(@, VideoFileClip(cc, cc.video_paths[cc.k]))]
                ELSE [cc EXCEPT !.pc = "done", !.exc = "VideoFileClip"]
    /\ UNCHANGED <<fs, notConcat>>

\* services/video_processing.py:125-127 and 140-148: the clips are joined and
\* written to the output path.
MV_Write ==
    /\ cc.pc = "load" /\ cc.k > Len(cc.video_paths)
    /\ \E written \in BOOLEAN :
          IF written
          THEN /\ fs' = [fs EXCEPT !.output =
                            Present(concatenate_videoclips(cc.resized_clips))]
               /\ cc' = [cc EXCEPT !.pc = "done"]
          ELSE /\ cc' = [cc EXCEPT !.pc = "done", !.exc = "write_videofile"]
               /\ UNCHANGED fs
    /\ UNCHANGED notConcat

\* export.py:95-100: a project without clips is refused, else the clips are
\* sorted by their order field.
EX_Sort ==
    /\ cc.pc = "idle" /\ cc.video_paths = <<>>
    /\ cc' = IF cc.project_clips = <<>>
             THEN [cc EXCEPT !.fn = "export_project", !.pc = "done",
                             !.exc = "No clips in project"]
             ELSE [cc EXCEPT !.fn = "export_project", !.pc = "download",
                             !.k = 1,
                             !.clips = SortedByOrder(cc.project_clips)]
    /\ UNCHANGED <<fs, notConcat>>

\* export.py:114-134: the k-th clip in sorted order is downloaded to
\* clip_{k-1}.mp4; a missing asset or a failed download ends the export.
EX_Download ==
    /\ cc.fn = "export_project" /\ cc.pc = "download"
    /\ cc.k <= Len(cc.clips)
    /\ \E answer \in {"downloaded", "Asset not found", "Failed to download clip"} :
          cc' = IF answer = "downloaded"
                THEN [cc EXCEPT
                        !.k = @ + 1,
                        !.video_paths = Append(@, clip_path(cc.k - 1)),
                        !.held = @ \cup {<<clip_path(cc.k - 1),
                                           <<"s3", cc.clips[cc.k].asset_id>> >>}]
                ELSE [cc EXCEPT !.pc = "done", !.exc = answer]
    /\ UNCHANGED <<fs, notConcat>>

\* export.py:169-175 and services/video_processing.py:341-344: the clip paths
\* are handed to merge_video_clips.
EX_Merge ==
    /\ cc.fn = "export_project" /\ cc.pc = "download"
    /\ cc.k > Len(cc.clips)
    /\ cc' = merge_video_clips_start(cc)
    /\ UNCHANGED <<fs, notConcat>>

NextConcat ==
    \/ FC_Open \/ FC_Write \/ FC_Run \/ FC_Remove
    \/ FF_Open \/ FF_Write \/ FF_Run \/ FF_Remove
    \/ MV_Start \/ MV_Load \/ MV_Write
    \/ EX_Sort \/ EX_Download \/ EX_Merge

SpecConcat == InitConcat /\ [][NextConcat]_vars

\* C7: when a Sequencer call has ended, by returning or by raising, none of
\* the list files it wrote is left behind.
C7_NoTempFileSurvives ==
    cc.pc = "done" => (~fs.list_file.exists /\ ~fs.concat_file.exists)

\* The scratch directory of POST /create_video and of process_video_task is
\* removed on every exit path.
CreateVideoScratchRemoved ==
    cv.pc = "done" => (~cv.temp_dir /\ cv.temp_files = {})

CreateVideoFailedAfterDownload ==
    cv.pc = "done" /\ cv.status = 500 /\ cv.downloaded_clips # {}

TaskScratchRemoved ==
    pvt.pc = "done" => ~pvt.temp_dir

TaskFailedWithScratch ==
    pvt.pc = "done" /\ pvt.made_temp /\ pvt.exc # "-"

\* What the output has to play: the input files, one entry per input entry,
\* in input order.
InputOrder == [k \in 1..Len(cc.video_paths) |-> abspath(cc.video_paths[k])]

ExportOrder == [k \in 1..Len(cc.clips) |-> <<"s3", cc.clips[k].asset_id>>]

\* C8: the concat directive handed to ffmpeg lists the input segments in input
\* order, one line per input entry, and every output written plays the input
\* segments in input order, a segment listed twice being played twice; an
\* export plays its clips in their sorted order.
C8_OrderPreserved ==
    /\ (cc.fn = "fast_concatenate_videos" /\ cc.pc = "remove")
          => fs.list_file.lines = cc.video_paths
    /\ (cc.fn = "concatenate_videos_ffmpeg" /\ cc.pc = "remove")
          => fs.concat_file.lines = InputOrder
    /\ (fs.output.exists /\ cc.fn # "export_project")
          => fs.output.lines = InputOrder
    /\ (fs.output.exists /\ cc.fn = "export_project")
          => fs.output.lines = ExportOrder

C8_Witness ==
    /\ cc.fn = "concatenate_videos_ffmpeg" /\ cc.pc = "done" /\ cc.exc = "-"
    /\ fs.output.exists
    /\ Len(cc.video_paths) = 3
    /\ cc.video_paths[1] = cc.video_paths[2]
    /\ cc.video_paths[3] # cc.video_paths[1]
    /\ Len(fs.output.lines) = 3

\* sorted() is stable: the sorted clips are the project's clips, by
\* non-decreasing order field, clips of equal order keeping their positions.
SortIsStable ==
    (cc.fn = "export_project" /\ cc.pc # "done" /\ cc.pc # "idle") =>
        \E perm \in [1..Len(cc.clips) -> 1..Len(cc.clips)] :
            /\ \A i, j \in 1..Len(cc.clips) : i # j => perm[i] # perm[j]
            /\ \A i \in 1..Len(cc.clips) : cc.clips[i] = cc.project_clips[perm[i]]
            /\ \A i, j \in 1..Len(cc.clips) :
                  i < j => \/ cc.clips[i].order < cc.clips[j].order
                           \/ /\ cc.clips[i].order = cc.clips[j].order
                              /\ perm[i] < perm[j]

(***************************************************************************)
(* SpecSubs: the Subtitle Synthesizer, add_subtitles_to_video on one entry *)
(* of the transcript, in its three versions:                               *)
(*   "services"          services/video_processing.py:151-318              *)
(*   "video_processing"  video_processing.py:579-701                       *)
(*   "caption_maker"     BackEnd/caption_maker.py:99-195                   *)
(* Seconds are exact fractions <<numerator, denominator>>; the rounding of *)
(* Python floats is not modelled.                                          *)
(***************************************************************************)
MaxTextLen == 5

notSubs == <<orchVars, taskVars, createVars, concatVars, laterVars>>

RECURSIVE Gcd(_, _)
Gcd(a, b) == IF b = 0 THEN a ELSE Gcd(b, a % b)

Abs(n) == IF n < 0 THEN -n ELSE n

\* The fraction n/d in lowest terms, d > 0.
Frac(n, d) ==
    LET g == Gcd(Abs(n), d) IN IF n = 0 THEN <<0, 1>> ELSE <<n \div g, d \div g>>

FracAdd(x, y) == Frac(x[1] * y[2] + y[1] * x[2], x[2] * y[2])
FracTimes(k, x) == Frac(k * x[1], x[2])
FracOver(x, k) == Frac(x[1], x[2] * k)
FracLess(x, y) == x[1] * y[2] < y[1] * x[2]

\* The constants of add_subtitles_to_video.
target_width == 1080
font_size == 75
min_duration == <<1, 2>>                     \* total_duration = 0.5
estimate_tenths == 6                         \* len(text) * font_size * 0.6

\* max_width_ratio, in tenths.
max_width_ratio(variant) == IF variant = "services" THEN 9 ELSE 7

Variants == {"services", "video_processing", "caption_maker"}

\* services/video_processing.py:72-82, video_processing.py:530-542:
\* time_to_seconds.  Three components are hours, minutes and seconds, two are
\* minutes and seconds, otherwise the first component is the seconds.
time_to_seconds(str) ==
    LET parts == Split(str, ":")
    IN  IF Len(parts) = 3
        THEN Float(parts[1]) * 3600 + Float(parts[2]) * 60 + Float(parts[3])
        ELSE IF Len(parts) = 2
        THEN Float(parts[1]) * 60 + Float(parts[2])
        ELSE Float(parts[1])

\* str.split(): the runs of characters between blanks.
Words(text) == SelectSeq(Split(text, " "), LAMBDA piece : piece # <<>>)

\* ' '.join(words).
RECURSIVE Join(_)
Join(ws) ==
    IF ws = <<>> THEN <<>>
    ELSE IF Len(ws) = 1 THEN ws[1]
    ELSE ws[1] \o <<" ">> \o Join(Tail(ws))

\* A font is what style['font'] names: a face that loads, with the pixels
\* each character takes at font_size, a path with no file, or a file that
\* does not load.
Faces == { [state |-> "loads", a |-> 100, b |-> 100, blank |-> 100],
           [state |-> "loads", a |-> 100, b |-> 500, blank |-> 100],
           [state |-> "loads", a |-> 1000, b |-> 1000, blank |-> 1000] }

Fonts == Faces \cup { [state |-> "missing", a |-> 0, b |-> 0, blank |-> 0],
                      [state |-> "unloadable", a |-> 0, b |-> 0, blank |-> 0] }

\* get_verified_font (services/video_processing.py:30-43): the path of the
\* style when a file is there, whether or not it loads; else the first
\* fallback file there is, which may load or not, or the name "Arial", which
\* may be found or not.
get_verified_font(font, fallback) ==
    IF font.state # "missing" THEN font ELSE fallback

\* The fonts get_styles leaves in the styles (services/video_processing.py:
\* 46-65).
StyleFonts == {get_verified_font(font, fallback) : font \in Fonts, fallback \in Fonts}

CharWidth(face, ch) ==
    IF ch = "a" THEN face.a ELSE IF ch = "b" THEN face.b ELSE face.blank

\* bbox[2] - bbox[0] of the text drawn in the face.
RECURSIVE TextWidth(_, _)
TextWidth(face, text) ==
    IF text = <<>> THEN 0
    ELSE CharWidth(face, Head(text)) + TextWidth(face, Tail(text))

\* len(text) * font_size * 0.6 <= video.w * max_width_ratio, in tenths.
EstimateFits(variant, text) ==
    Len(text) * font_size * estimate_tenths
        <= target_width * max_width_ratio(variant)

MeasureFits(variant, face, text) ==
    TextWidth(face, text) * 10 <= target_width * max_width_ratio(variant)

\* The test of the chunk loop.  services and caption_maker measure with PIL
\* (services/video_processing.py:203, caption_maker.py:152); video_processing
\* takes the measure when the font file exists, get_text_width falling back to
\* the estimate when it does not load, and the estimate otherwise or when the
\* measure is over the limit (video_processing.py:631-650, 545-555).
Fits(variant, font, text) ==
    IF variant = "video_processing"
    THEN \/ font.state = "loads" /\ MeasureFits(variant, font, text)
         \/ EstimateFits(variant, text)
    ELSE MeasureFits(variant, font, text)

\* One pass of the chunk loop (services/video_processing.py:201-209): the
\* word joins the current chunk when the joined text fits, else the current
\* chunk, if it has a word, is closed and the word opens the next one.
chunk_word_DropOverflow(st, word, fits) ==
    IF fits THEN [st EXCEPT !.current_chunk = Append(@, word)]
    ELSE [chunks |-> Append(st.chunks, st.current_chunk), current_chunk |-> <<>>]

chunk_word_EmptyBefore(st, word, fits) ==
    IF fits THEN [st EXCEPT !.current_chunk = Append(@, word)]
    ELSE [chunks |-> Append(st.chunks, st.current_chunk),
          current_chunk |-> <<word>>]

chunk_word(st, word, fits) ==
    IF fits THEN [st EXCEPT !.current_chunk = Append(@, word)]
    ELSE [chunks |-> IF st.current_chunk # <<>>
                     THEN Append(st.chunks, st.current_chunk) ELSE st.chunks,
          current_chunk |-> <<word>>]

RECURSIVE chunk_loop(_, _, _, _)
chunk_loop(variant, font, words, st) ==
    IF words = <<>> THEN st
    ELSE chunk_loop(variant, font, Tail(words),
                    chunk_word(st, Head(words),
                               Fits(variant, font,
                                    Join(Append(st.current_chunk, Head(words))))))

\* services/video_processing.py:197-213: the chunks of the words of an entry.
make_chunks(variant, font, words) ==
    LET st == chunk_loop(variant, font, words,
                         [chunks |-> <<>>, current_chunk |-> <<>>])
    IN  IF st.current_chunk # <<>> THEN Append(st.chunks, st.current_chunk)
        ELSE st.chunks

\* services/video_processing.py:218: total_duration / num_chunks.
chunk_duration_PerWord(total_duration, chunks) ==
    FracOver(total_duration, Len(chunks) + 1)

chunk_duration(total_duration, chunks) == FracOver(total_duration, Len(chunks))

\* The transcript entries given to the handler.
Chars == {"a", "b", " "}
Texts == SeqsUpTo(Chars, MaxTextLen)

t_0_02 == <<"0", ":", "0", "2">>
t_00_00_05 == <<"0", "0", ":", "0", "0", ":", "0", "5">>
t_7 == <<"7">>

TimePairs == { <<t_0_02, t_00_00_05>>, <<t_00_00_05, t_00_00_05>>, <<t_7, t_0_02>> }

Entries == { [start |-> tp[1], end |-> tp[2], text |-> text] :
               tp \in TimePairs, text \in Texts }

InitSubs ==
    /\ cfg = [use_mock |-> FALSE, base_url |-> TRUE, results_url |-> TRUE,
              api_key |-> TRUE, user_id |-> TRUE, saved_item_id |-> TRUE]
    /\ lastCall = NoCall
    /\ InitTaskIdle
    /\ InitCreateIdle
    /\ InitConcatIdle
    /\ InitLaterIdle
    /\ \E variant \in Variants, font \in StyleFonts, entry \in Entries :
          sub = [SubIdle EXCEPT !.variant = variant, !.font = font,
                                !.entry = entry]

\* services/video_processing.py:183-186: total_duration = end_s - start_s,
\* and 0.5 when that is not positive.
clamp_duration_OnlyNegative(total_duration) ==
    IF total_duration < 0 THEN min_duration ELSE <<total_duration, 1>>

clamp_duration(total_duration) ==
    IF total_duration <= 0 THEN min_duration ELSE <<total_duration, 1>>

\* services/video_processing.py:181-191: the times, the clamp, the words; an
\* entry without words is skipped.
S_Entry ==
    /\ sub.pc = "idle"
    /\ LET start_s == time_to_seconds(sub.entry.start)
           end_s == time_to_seconds(sub.entry.end)
           total_duration == clamp_duration(end_s - start_s)
           words == Words(sub.entry.text)
       IN  sub' = [sub EXCEPT !.start_s = start_s,
                              !.total_duration = total_duration,
                              !.words = words,
                              !.pc = IF words = <<>> THEN "done" ELSE "chunk"]
    /\ UNCHANGED notSubs

\* services/video_processing.py:193-218 (video_processing.py:627-664): the
\* chunk loop and the duration of a chunk.  A font that does not load makes
\* get_text_width raise in services and caption_maker; video_processing
\* estimates instead.
S_Chunk ==
    /\ sub.pc = "chunk"
    /\ sub' = IF sub.variant # "video_processing" /\ sub.font.state # "loads"
              THEN [sub EXCEPT !.pc = "done", !.exc = "OSError"]
              ELSE LET chunks == make_chunks(sub.variant, sub.font, sub.words)
                   IN  IF Len(chunks) = 0 THEN [sub EXCEPT !.pc = "done"]
                       ELSE [sub EXCEPT
                               !.chunks = chunks,
                               !.chunk_duration =
                                   chunk_duration(sub.total_duration, chunks),
                               !.i = 0,
                               !.pc = "clips"]
    /\ UNCHANGED notSubs

\* The overlay of chunk i (services/video_processing.py:220-257): its text,
\* chunk_start = start_s + i * chunk_duration and chunk_duration.  services
\* retries with "Arial" and drops the overlay when that fails too; the other
\* versions let the exception of TextClip out (video_processing.py:666-684).
text_clip(c, font) ==
    [text |-> Join(c.chunks[c.i + 1]),
     start |-> FracAdd(<<c.start_s, 1>>, FracTimes(c.i, c.chunk_duration)),
     duration |-> c.chunk_duration,
     font |-> font]

S_Clip ==
    /\ sub.pc = "clips" /\ sub.i < Len(sub.chunks)
    /\ \E made \in {"style font", "Arial", "neither"} :
          sub' = IF made = "style font"
                 THEN [sub EXCEPT
                         !.subtitle_clips = Append(@, text_clip(sub, "style font")),
                         !.i = @ + 1]
                 ELSE IF sub.variant # "services"
                 THEN [sub EXCEPT !.pc = "done", !.exc = "TextClip"]
                 ELSE IF made = "Arial"
                 THEN [sub EXCEPT
                         !.subtitle_clips = Append(@, text_clip(sub, "Arial")),
                         !.i = @ + 1]
                 ELSE [sub EXCEPT !.i = @ + 1]
    /\ UNCHANGED notSubs

\* The end of the loop over the chunks of the entry.
S_EntryEnd ==
    /\ sub.pc = "clips" /\ sub.i = Len(sub.chunks)
    /\ sub' = [sub EXCEPT !.pc = "done"]
    /\ UNCHANGED notSubs

NextSubs == S_Entry \/ S_Chunk \/ S_Clip \/ S_EntryEnd

SpecSubs == InitSubs /\ [][NextSubs]_vars

\* The entry's start and its clamped duration, from the entry itself.
EntryStart == <<time_to_seconds(sub.entry.start), 1>>

ClampedDuration ==
    LET d == time_to_seconds(sub.entry.end) - time_to_seconds(sub.entry.start)
    IN  IF d <= 0 THEN <<1, 2>> ELSE <<d, 1>>

RECURSIVE SumDurations(_)
SumDurations(clips) ==
    IF clips = <<>> THEN <<0, 1>>
    ELSE FracAdd(clips[1].duration, SumDurations(Tail(clips)))

\* Overlay k starts at start + (k-1) * (duration / N) and lasts duration / N;
\* each overlay starts where the one before it ends, and later than it.
EvenSchedule(clips) ==
    LET N == Len(clips)
    IN  /\ \A k \in 1..N :
              /\ clips[k].duration = FracOver(ClampedDuration, N)
              /\ clips[k].start =
                     FracAdd(EntryStart, FracTimes(k - 1, FracOver(ClampedDuration, N)))
        /\ \A k \in 1..(N - 1) :
              /\ FracLess(clips[k].start, clips[k + 1].start)
              /\ FracAdd(clips[k].start, clips[k].duration) = clips[k + 1].start

EntryHandled == sub.pc = "done" /\ sub.exc = "-"

AllClipsMade == EntryHandled /\ Len(sub.subtitle_clips) = Len(sub.chunks)

RECURSIVE Flatten(_)
Flatten(chunks) ==
    IF chunks = <<>> THEN <<>> ELSE Head(chunks) \o Flatten(Tail(chunks))

ChunksMade == sub.pc = "clips" \/ (EntryHandled /\ sub.words # <<>>)

\* C10: once the words of an entry are chunked, the words of the chunks, chunk
\* after chunk, are the words of the entry's text in their order, each once,
\* and no chunk is empty.
C10_NoWordLost ==
    ChunksMade =>
        /\ Flatten(sub.chunks) = Words(sub.entry.text)
        /\ \A k \in 1..Len(sub.chunks) : sub.chunks[k] # <<>>

C10_Witness ==
    /\ ChunksMade
    /\ Len(sub.words) = 3
    /\ sub.words[1] # sub.words[2]
    /\ Len(sub.chunks) = 2
    /\ Len(sub.chunks[1]) = 2

\* A word wider than the limit is a chunk of its own.
WideWordAlone ==
    /\ ChunksMade
    /\ sub.font.state = "loads" /\ sub.font.a = 1000
    /\ Len(sub.chunks) = Len(sub.words) /\ Len(sub.words) >= 2

\* A word is wider than the limit when the test of the chunk loop fails for
\* the word alone.
TooWide(word) == ~Fits(sub.variant, sub.font, word)

\* C11: once the words of an entry are chunked, a word wider than the limit is
\* the only word of its chunk, whole; no chunk is empty and no word is lost,
\* so an entry made of one such word has exactly one chunk, that word.
C11_WideWordOwnChunk ==
    ChunksMade =>
        /\ \A k \in 1..Len(sub.chunks) : sub.chunks[k] # <<>>
        /\ \A k \in 1..Len(sub.chunks) :
              (\E j \in 1..Len(sub.chunks[k]) : TooWide(sub.chunks[k][j]))
                  => Len(sub.chunks[k]) = 1
        /\ Flatten(sub.chunks) = Words(sub.entry.text)
        /\ (Len(sub.words) = 1 /\ TooWide(sub.words[1]))
              => sub.chunks = <<sub.words>>

C11_Witness ==
    /\ sub.pc = "clips"
    /\ Len(sub.words) = 1 /\ Len(sub.words[1]) = 2
    /\ TooWide(sub.words[1])
    /\ sub.chunks = << <<sub.words[1]>> >>

(***************************************************************************)
(* SpecParse: the Timestamp Parser.  One call of gumloop.parse_timestamp   *)
(* (gumloop.py:179-193), of video_processing.parse_timestamp               *)
(* (video_processing.py:24-39) or of time_to_seconds                       *)
(* (services/video_processing.py:72-82) on a point "A" or a range "A-B",   *)
(* A and B built from up to MaxParts components joined by ":".             *)
(***************************************************************************)
MaxParts == 4

notParse == <<orchVars, taskVars, createVars, concatVars, sub, ex, mg, two, loc, vo, tl, pj, ast>>

\* A component is <<its characters, its value>>; the value of a component
\* that is not a number is -1.
NumericComponents == { << <<"0">>, 0 >>, << <<"0", "5">>, 5 >>, << <<"1", "3">>, 13 >> }
Components == NumericComponents \cup { << <<"a", "b", "c">>, -1 >> }

\* A time is a sequence of components; its string joins them with ":".
Times == UNION { [1..n -> Components] : n \in 1..MaxParts }

RECURSIVE TimeString(_)
TimeString(t) ==
    IF Len(t) = 1 THEN t[1][1]
    ELSE t[1][1] \o <<":">> \o TimeString(Tail(t))

\* The times the ranges of the model pair every time with.
FewTimes == { << << <<"0", "5">>, 5 >> >>,
              << << <<"0">>, 0 >>, << <<"1", "3">>, 13 >> >>,
              << << <<"0">>, 0 >>, << <<"0">>, 0 >>, << <<"0", "5">>, 5 >> >> }

RangePairs == (Times \X FewTimes) \cup (FewTimes \X Times)

\* time_to_seconds (services/video_processing.py:72-82) with its ValueError:
\* with more than three components only the first is converted.
time_to_seconds_call(str) ==
    LET parts == Split(str, ":")
    IN  IF Len(parts) = 3
        THEN IF \A k \in 1..3 : IsFloat(parts[k])
             THEN Parsed(time_to_seconds(str), 0, FALSE) ELSE ParseError
        ELSE IF Len(parts) = 2
        THEN IF \A k \in 1..2 : IsFloat(parts[k])
             THEN Parsed(time_to_seconds(str), 0, FALSE) ELSE ParseError
        ELSE IF IsFloat(parts[1]) THEN Parsed(time_to_seconds(str), 0, FALSE)
             ELSE ParseError

InitParse ==
    /\ ast = AstIdle
    /\ pj = PjIdle
    /\ tl = TlIdle
    /\ vo = VoIdle
    /\ loc = LocIdle
    /\ two = TwoIdle
    /\ mg = MgIdle
    /\ ex = ExIdle
    /\ cfg = [use_mock |-> FALSE, base_url |-> TRUE, results_url |-> TRUE,
              api_key |-> TRUE, user_id |-> TRUE, saved_item_id |-> TRUE]
    /\ lastCall = NoCall
    /\ InitTaskIdle
    /\ InitCreateIdle
    /\ InitConcatIdle
    /\ sub = SubIdle
    /\ \/ \E t \in Times :
             ts = [TsIdle EXCEPT !.a = t, !.str = TimeString(t)]
       \/ \E pr \in RangePairs :
             ts = [TsIdle EXCEPT !.a = pr[1], !.b = pr[2], !.range = TRUE,
                                 !.str = TimeString(pr[1]) \o <<"-">>
                                             \o TimeString(pr[2])]

P_Gumloop ==
    /\ ts.fn = "none"
    /\ ts' = [ts EXCEPT !.fn = "gumloop.parse_timestamp",
                        !.out = gl_parse_timestamp(ts.str)]
    /\ UNCHANGED notParse

P_VideoProcessing ==
    /\ ts.fn = "none"
    /\ ts' = [ts EXCEPT !.fn = "video_processing.parse_timestamp",
                        !.out = vp_parse_timestamp(ts.str)]
    /\ UNCHANGED notParse

P_TimeToSeconds ==
    /\ ts.fn = "none"
    /\ ts' = [ts EXCEPT !.fn = "time_to_seconds",
                        !.out = time_to_seconds_call(ts.str)]
    /\ UNCHANGED notParse

NextParse == P_Gumloop \/ P_VideoProcessing \/ P_TimeToSeconds

SpecParse == InitParse /\ [][NextParse]_vars

\* The seconds of a valid time, from its components: H*3600 + M*60 + S,
\* M*60 + S, or S.
ValidTime(t) == Len(t) <= 3 /\ \A k \in 1..Len(t) : t[k][2] >= 0

Seconds(t) ==
    IF Len(t) = 3 THEN t[1][2] * 3600 + t[2][2] * 60 + t[3][2]
    ELSE IF Len(t) = 2 THEN t[1][2] * 60 + t[2][2]
    ELSE t[1][2]

ValidInput == ValidTime(ts.a) /\ (ts.range => ValidTime(ts.b))

\* time_to_seconds takes points, video_processing.parse_timestamp ranges,
\* gumloop.parse_timestamp both.
Called ==
    \/ ts.fn = "gumloop.parse_timestamp"
    \/ ts.fn = "video_processing.parse_timestamp" /\ ts.range
    \/ ts.fn = "time_to_seconds" /\ ~ts.range

RightValue ==
    /\ ts.out.ok
    /\ ts.out.start = Seconds(ts.a)
    /\ ts.range => (ts.out.has_end /\ ts.out.end = Seconds(ts.b))

\* C12: a parser called on a valid point or range returns the seconds of the
\* time, H*3600 + M*60 + S, M*60 + S or S, and for a range the seconds of both
\* ends.
C12_ValidParsed ==
    (Called /\ ValidInput) => RightValue

\* What holds: gumloop.parse_timestamp apart, whose times need two or three
\* components.
ValidParsedButGumloopSeconds ==
    ( /\ Called /\ ValidInput
      /\ ts.fn = "gumloop.parse_timestamp"
            => (Len(ts.a) >= 2 /\ (ts.range => Len(ts.b) >= 2)) )
        => RightValue

ParsedHours ==
    /\ Called /\ ValidInput /\ RightValue
    /\ ts.range /\ Len(ts.a) = 3 /\ ts.out.end - ts.out.start = 8

TooManyParts(t) == Len(t) > 3
NonNumeric(t) == \E k \in 1..Len(t) : t[k][2] < 0

\* The faults of the input: a time with more than three components or with a
\* component that is not a number, or a point given to the parser of ranges.
Malformed ==
    \/ TooManyParts(ts.a) \/ NonNumeric(ts.a)
    \/ ts.range /\ (TooManyParts(ts.b) \/ NonNumeric(ts.b))
    \/ ts.fn = "video_processing.parse_timestamp" /\ ~ts.range

CalledOnPointOrRange ==
    Called \/ (ts.fn = "video_processing.parse_timestamp" /\ ~ts.range)

\* C13: a parser called on a malformed input raises and returns no value.
C13_MalformedFails ==
    (CalledOnPointOrRange /\ Malformed) => ~ts.out.ok

\* What holds: every parser raises on a malformed input of up to three
\* components a time, and gumloop.parse_timestamp on any malformed input.
MalformedFailsUpToThreeParts ==
    ( /\ CalledOnPointOrRange /\ Malformed
      /\ \/ ts.fn = "gumloop.parse_timestamp"
         \/ ~TooManyParts(ts.a) /\ (ts.range => ~TooManyParts(ts.b)) )
        => ~ts.out.ok

RaisedOnLetters ==
    /\ Called /\ ts.range /\ ~ts.out.ok
    /\ NonNumeric(ts.a) /\ Len(ts.a) = 1 /\ ValidTime(ts.b)

(***************************************************************************)
(* SpecExport: one export, from the voiceover on: export_project           *)
(* (routers/export.py:136-208), process_project_export                     *)
(* (services/video_processing.py:321-370) and the end of                   *)
(* add_subtitles_to_video (services/video_processing.py:259-318).          *)
(* A file is the video it shows and the audio track it carries.            *)
(***************************************************************************)
notExport == <<orchVars, taskVars, createVars, concatVars, sub, ts, mg, two, loc, vo, tl, pj, ast>>

File(video, audio) == [exists |-> TRUE, video |-> video, audio |-> audio]

\* clip.without_audio(), services/video_processing.py:127 and 137.
without_audio_Kept(audio) == audio

without_audio(audio) == "none"

InitExport ==
    /\ ast = AstIdle
    /\ pj = PjIdle
    /\ tl = TlIdle
    /\ vo = VoIdle
    /\ loc = LocIdle
    /\ two = TwoIdle
    /\ mg = MgIdle
    /\ cfg = [use_mock |-> FALSE, base_url |-> TRUE, results_url |-> TRUE,
              api_key |-> TRUE, user_id |-> TRUE, saved_item_id |-> TRUE]
    /\ lastCall = NoCall
    /\ InitTaskIdle
    /\ InitCreateIdle
    /\ InitConcatIdle
    /\ sub = SubIdle
    /\ ts = TsIdle
    /\ \E voiceover, transcript \in BOOLEAN, clip_audio \in {"none", "source"} :
          ex = [ExIdle EXCEPT !.voiceover = voiceover,
                              !.transcript = transcript,
                              !.clip_audio = clip_audio]

\* export.py:136-150: the voiceover is downloaded when the project names one;
\* a failed download continues without audio.
E_Voiceover ==
    /\ ex.pc = "idle"
    /\ \E downloaded \in BOOLEAN :
          ex' = [ex EXCEPT !.pc = "transcribe",
                           !.audio_path = ex.voiceover /\ downloaded]
    /\ UNCHANGED notExport

\* export.py:152-161: without a transcript the voiceover is transcribed; a
\* failed transcription leaves an empty transcript.
E_Transcribe ==
    /\ ex.pc = "transcribe"
    /\ \E transcribed \in BOOLEAN :
          ex' = [ex EXCEPT !.pc = "merge",
                           !.transcript =
                               IF ~ex.transcript /\ ex.audio_path
                               THEN transcribed ELSE @]
    /\ UNCHANGED notExport

\* services/video_processing.py:341-344: merge_video_clips writes the merged
\* video, the audio of the clips stripped, or raises.
E_Merge ==
    /\ ex.pc = "merge"
    /\ \E ok \in BOOLEAN :
          ex' = IF ok
                THEN [ex EXCEPT !.merged = File("merged", without_audio(ex.clip_audio)),
                                !.pc = IF ex.transcript THEN "subtitles"
                                       ELSE "plain"]
                ELSE [ex EXCEPT !.pc = "except", !.exc = "merge_video_clips"]
    /\ UNCHANGED notExport

\* services/video_processing.py:259-270: the composite of the merged video and
\* the overlays is written, without audio, next to the output.
E_Subtitles ==
    /\ ex.pc = "subtitles"
    /\ \E ok \in BOOLEAN :
          ex' = IF ok
                THEN [ex EXCEPT !.video_only = File("composited", ex.merged.audio),
                                !.pc = "mux"]
                ELSE [ex EXCEPT !.pc = "except", !.exc = "write_videofile"]
    /\ UNCHANGED notExport

\* services/video_processing.py:278-312: with an audio path ffmpeg maps the
\* video of the first input and the audio of the second; when it fails the
\* video-only file becomes the output; without an audio path it is renamed.
E_Mux ==
    /\ ex.pc = "mux"
    /\ \E returncode \in {0, 1} :
          ex' = IF ex.audio_path /\ returncode = 0
                THEN [ex EXCEPT !.output = File(ex.video_only.video, "voiceover"),
                                !.video_only = NoFile,
                                !.pc = "upload"]
                ELSE [ex EXCEPT !.output = ex.video_only,
                                !.video_only = NoFile,
                                !.returncode = IF ex.audio_path THEN returncode ELSE @,
                                !.pc = "upload"]
    /\ UNCHANGED notExport

\* services/video_processing.py:356-368: without subtitles the audio is set
\* with moviepy and the video written, with no handler around it; without
\* audio the merged file is moved to the output.
E_Plain ==
    /\ ex.pc = "plain"
    /\ \E ok \in BOOLEAN :
          ex' = IF ~ex.audio_path
                THEN [ex EXCEPT !.output = ex.merged, !.merged = NoFile,
                                !.pc = "upload"]
                ELSE IF ok
                THEN [ex EXCEPT !.output = File(ex.merged.video, "voiceover"),
                                !.pc = "upload"]
                ELSE [ex EXCEPT !.pc = "except", !.exc = "with_audio"]
    /\ UNCHANGED notExport

\* export.py:176-179: an exception of process_project_export is HTTP 500.
E_Except ==
    /\ ex.pc = "except"
    /\ ex' = [ex EXCEPT !.pc = "done", !.status = 500, !.output = NoFile]
    /\ UNCHANGED notExport

\* export.py:181-208: the upload, the export record, the response.
E_Upload ==
    /\ ex.pc = "upload"
    /\ \E ok \in BOOLEAN :
          ex' = IF ok THEN [ex EXCEPT !.pc = "done", !.status = 200]
                ELSE [ex EXCEPT !.pc = "done", !.status = 500,
                                !.exc = "upload_file"]
    /\ UNCHANGED notExport

NextExport ==
    \/ E_Voiceover \/ E_Transcribe \/ E_Merge \/ E_Subtitles \/ E_Mux
    \/ E_Plain \/ E_Except \/ E_Upload

SpecExport == InitExport /\ [][NextExport]_vars

Exported == ex.pc = "done" /\ ex.status = 200

\* C14: muxing the audio never fails the export: no export ends because the
\* audio could not be set on the video, and with no audio file the video
\* that was written is the output, unchanged.
C14_MuxNeverFailsExport ==
    /\ ex.exc # "with_audio"
    /\ (ex.pc = "upload" /\ ~ex.audio_path) =>
          /\ ex.output.exists
          /\ ex.output.audio = "none"

\* What the code has of C14: inside add_subtitles_to_video a failed ffmpeg
\* run leaves the video-only file as the output and the export goes on.
SubtitleMuxAbsorbed ==
    (ex.transcript /\ ex.returncode = 1 /\ ex.pc \in {"upload", "done"}) =>
        /\ ex.exc \in {"-", "upload_file"}
        /\ ex.pc = "upload" =>
              ex.output = File("composited", "none")

SubtitleMuxFailedAndExported ==
    Exported /\ ex.transcript /\ ex.returncode = 1 /\ ex.audio_path

PlainMuxFailedExport ==
    ex.pc = "done" /\ ex.status = 500 /\ ex.exc = "with_audio"

\* C15 as stated: the exported output carries an audio track if and only if
\* a voiceover was supplied.
C15_AudioIffVoiceover ==
    Exported => ((ex.output.audio # "none") <=> ex.voiceover)

\* C15: the audio of the source clips never reaches the output; the output
\* carries an audio track exactly when a voiceover was supplied, was
\* downloaded and was muxed, and that track is the voiceover.
C15_AudioOnlyFromVoiceover ==
    Exported =>
        /\ ex.output.audio \in {"none", "voiceover"}
        /\ ex.output.audio = "voiceover" => ex.voiceover
        /\ ex.output.audio = "voiceover" <=>
               (ex.audio_path /\ (ex.transcript => ex.returncode = 0))

C15_Witness ==
    /\ Exported
    /\ ex.clip_audio = "source"
    /\ ex.voiceover
    /\ ex.output.audio = "voiceover"

(***************************************************************************)
(* SpecMerge: create_merged_video (video_processing.py:189-275), the       *)
(* builder that takes clips with 'url', 'start_time' and 'end_time'.       *)
(***************************************************************************)
MaxClips == 2

placeholder == 10

notMerge == <<orchVars, taskVars, createVars, concatVars, sub, ts, ex, two, loc, vo, tl, pj, ast>>

Urls == {"short.mp4", "long.mp4"}

\* The seconds of video behind a url, which the renderer knows and the
\* builder does not.
VideoLength(url) == IF url = "short.mp4" THEN 12 ELSE 20

\* clip.get("url"), clip.get("start_time", 0), clip.get("end_time"): a clip
\* without 'end_time' has has_end FALSE.
VideoClips ==
    {clip \in [url : Urls \cup {""}, start_time : {0, 2}, has_end : BOOLEAN,
               end_time : {1, 5}] : clip.has_end \/ clip.end_time = 1}

VideoClipLists == UNION {[1..n -> VideoClips] : n \in 0..MaxClips}

InitMerge ==
    /\ ast = AstIdle
    /\ pj = PjIdle
    /\ tl = TlIdle
    /\ vo = VoIdle
    /\ loc = LocIdle
    /\ two = TwoIdle
    /\ cfg = [use_mock |-> FALSE, base_url |-> TRUE, results_url |-> TRUE,
              api_key |-> TRUE, user_id |-> TRUE, saved_item_id |-> TRUE]
    /\ lastCall = NoCall
    /\ InitTaskIdle
    /\ InitCreateIdle
    /\ InitConcatIdle
    /\ sub = SubIdle
    /\ ts = TsIdle
    /\ ex = ExIdle
    /\ \E video_clips \in VideoClipLists :
          mg = [MgIdle EXCEPT !.video_clips = video_clips]

\* One pass of the loop body, video_processing.py:203-232.
merged_clip(c, clip) ==
    LET next == [c EXCEPT !.i = @ + 1]
        duration == clip.end_time - clip.start_time
        element == [source |-> clip.url,
                    time |-> c.current_time,
                    trim_start |-> IF clip.start_time > 0
                                   THEN clip.start_time ELSE 0,
                    has_trim_duration |-> clip.has_end,
                    trim_duration |-> IF clip.has_end THEN duration ELSE 0]
    IN  IF clip.url = "" THEN next                                   \* 208-210
        ELSE [next EXCEPT
                !.elements = Append(@, element),
                !.current_time = IF clip.has_end THEN @ + duration   \* 221-224
                                 ELSE @ + placeholder]               \* 226-230

\* video_processing.py:195-201.
MG_Start ==
    /\ mg.pc = "idle"
    /\ mg' = IF mg.video_clips = <<>>
             THEN [mg EXCEPT !.pc = "done", !.out = "No video clips provided"]
             ELSE [mg EXCEPT !.pc = "loop", !.i = 1]
    /\ UNCHANGED notMerge

MG_Clip ==
    /\ mg.pc = "loop" /\ mg.i <= Len(mg.video_clips)
    /\ mg' = merged_clip(mg, mg.video_clips[mg.i])
    /\ UNCHANGED notMerge

\* video_processing.py:234-235.
MG_LoopEnd ==
    /\ mg.pc = "loop" /\ mg.i > Len(mg.video_clips)
    /\ mg' = IF mg.elements = <<>>
             THEN [mg EXCEPT !.pc = "done", !.out = "No valid clips to merge"]
             ELSE [mg EXCEPT !.pc = "submit"]
    /\ UNCHANGED notMerge

\* video_processing.py:249-268: the render request and its id.
MG_Submit ==
    /\ mg.pc = "submit"
    /\ \E answer \in {"id", "no_id", "status_error"} :
          mg' = CASE answer = "id" -> [mg EXCEPT !.pc = "render"]
                  [] answer = "no_id" ->
                       [mg EXCEPT !.pc = "done",
                                  !.out = "No render ID returned from Creatomate"]
                  [] OTHER ->
                       [mg EXCEPT !.pc = "done", !.out = "Creatomate API error"]
    /\ UNCHANGED notMerge

\* video_processing.py:272-275.
MG_Render ==
    /\ mg.pc = "render"
    /\ \E answer \in {"video_url", "render_error"} :
          mg' = [mg EXCEPT !.pc = "done", !.out = answer]
    /\ UNCHANGED notMerge

NextMerge == MG_Start \/ MG_Clip \/ MG_LoopEnd \/ MG_Submit \/ MG_Render

SpecMerge == InitMerge /\ [][NextMerge]_vars

\* The seconds an element shows: its trim duration, or without one the
\* source from the trim start to its end.
Shown(e) ==
    IF e.has_trim_duration THEN e.trim_duration
    ELSE VideoLength(e.source) - e.trim_start

RECURSIVE SumShown(_, _)
SumShown(elements, n) ==
    IF n = 0 THEN 0 ELSE SumShown(elements, n - 1) + Shown(elements[n])

\* C16: in the timeline builder each accepted clip is placed at the sum of
\* the durations of the clips accepted before it, and the timeline ends at
\* the sum of the durations of all the accepted clips.
C16_PlacedAtSumOfDurations ==
    mg.pc \in {"submit", "render"} =>
        /\ \A k \in 1..Len(mg.elements) :
              mg.elements[k].time = SumShown(mg.elements, k - 1)
        /\ mg.current_time = SumShown(mg.elements, Len(mg.elements))

\* What create_merged_video has of C16: the placement is the sum as long as
\* every accepted clip has an end time.
PlacedAtSumWithEndTimes ==
    (/\ mg.pc \in {"submit", "render"}
     /\ \A k \in 1..Len(mg.elements) : mg.elements[k].has_trim_duration) =>
        /\ \A k \in 1..Len(mg.elements) :
              mg.elements[k].time = SumShown(mg.elements, k - 1)
        /\ mg.current_time = SumShown(mg.elements, Len(mg.elements))

PlacedAfterPlaceholder ==
    /\ mg.pc = "render"
    /\ Len(mg.elements) = 2
    /\ ~mg.elements[1].has_trim_duration
    /\ mg.elements[1].source = "long.mp4"
    /\ mg.elements[2].time = placeholder

RECURSIVE SumTrim(_, _)
SumTrim(elements, n) ==
    IF n = 0 THEN 0 ELSE SumTrim(elements, n - 1) + elements[n].trim_duration

\* What create_video_from_matches has of C16: every element has a positive
\* trim duration, is placed at the sum of the earlier ones, and the
\* composition lasts the sum of all of them.
CreatomateTimelineSums ==
    /\ \A k \in 1..Len(cm.elements) :
          /\ cm.elements[k].trim_duration > 0
          /\ cm.elements[k].time = SumTrim(cm.elements, k - 1)
    /\ cm.current_time = SumTrim(cm.elements, Len(cm.elements))

CreatomateTwoPlaced ==
    /\ cm.pc = "render"
    /\ Len(cm.elements) = 2
    /\ cm.elements[2].time = cm.elements[1].trim_duration

(***************************************************************************)
(* SpecTwo: two invocations of fast_concatenate_videos                     *)
(* (video_processing.py:310-333) or concatenate_videos_ffmpeg              *)
(* (video_processing.py:396-428) running at once in one working directory, *)
(* each with its own segments and its own output path.  The few lines of   *)
(* a list stay in the buffer of the file object until the with block       *)
(* closes it, so an invocation truncates the file when it opens it and     *)
(* writes its lines from the start of the file when it closes it.          *)
(***************************************************************************)
MaxJobSegments == 2

notTwo == <<orchVars, taskVars, createVars, concatVars, sub, ts, ex, mg, loc, vo, tl, pj, ast>>

ConcatFunctions == {"fast_concatenate_videos", "concatenate_videos_ffmpeg"}

\* The cut segments of invocation p, in its own scratch directory.
JobSegments(p, n) ==
    [k \in 1..n |-> <<"/job" \o ToString(p), "cut_" \o ToString(k) \o ".mp4">>]

\* The lines an invocation writes: the paths as given (322-323), or their
\* absolute paths (403-406).
RECURSIVE Directive(_, _, _)
Directive(fn, video_paths, n) ==
    IF n = 0 THEN <<>>
    ELSE write_line(Directive(fn, video_paths, n - 1),
                    IF fn = "fast_concatenate_videos" THEN video_paths[n]
                    ELSE abspath(video_paths[n]))

OwnDirective(p) ==
    Directive(two.inv[p].fn, two.inv[p].video_paths,
              Len(two.inv[p].video_paths))

ListFile(p) == ListFileOf(two.inv[p].fn, output_path(p))

\* Lines written from the start of a file over what it holds.
Overwrite(old, lines) ==
    lines \o SubSeq(old, Len(lines) + 1, Len(old))

InitTwo ==
    /\ ast = AstIdle
    /\ pj = PjIdle
    /\ tl = TlIdle
    /\ vo = VoIdle
    /\ loc = LocIdle
    /\ cfg = [use_mock |-> FALSE, base_url |-> TRUE, results_url |-> TRUE,
              api_key |-> TRUE, user_id |-> TRUE, saved_item_id |-> TRUE]
    /\ lastCall = NoCall
    /\ InitTaskIdle
    /\ InitCreateIdle
    /\ InitConcatIdle
    /\ sub = SubIdle
    /\ ts = TsIdle
    /\ ex = ExIdle
    /\ mg = MgIdle
    /\ \E fns \in [Invocations -> ConcatFunctions],
          ns \in [Invocations -> 1..MaxJobSegments] :
          two = [TwoIdle EXCEPT
                   !.inv = [p \in Invocations |->
                              [InvIdle EXCEPT !.fn = fns[p],
                                              !.video_paths =
                                                  JobSegments(p, ns[p])]]]

\* video_processing.py:321 and 402: open(file, 'w') creates or truncates.
T_Open(p) ==
    /\ two.inv[p].pc = "idle"
    /\ two' = [two EXCEPT !.inv[p].pc = "open",
                          !.files[ListFile(p)] = Present(<<>>)]
    /\ UNCHANGED notTwo

\* video_processing.py:321-323 and 402-406: the end of the with block.
T_Close(p) ==
    /\ two.inv[p].pc = "open"
    /\ two' = [two EXCEPT
                 !.inv[p].pc = "run",
                 !.files[ListFile(p)] =
                     Present(Overwrite(@.lines, OwnDirective(p)))]
    /\ UNCHANGED notTwo

\* video_processing.py:326-330 and 408-419: ffmpeg reads the list; without
\* the file, or with nothing in it, it exits with an error.  check=True
\* raises in fast_concatenate_videos.
T_Run(p) ==
    /\ two.inv[p].pc = "run"
    /\ \E returncode \in {0, 1} :
          LET file == two.files[ListFile(p)]
              rc == IF file.lines = <<>> THEN 1 ELSE returncode
          IN  two' = [two EXCEPT
                        !.inv[p].directive = file,
                        !.inv[p].returncode = rc,
                        !.inv[p].pc =
                            IF rc # 0 /\ two.inv[p].fn = "fast_concatenate_videos"
                            THEN "done" ELSE "remove",
                        !.inv[p].exc =
                            IF rc # 0 /\ two.inv[p].fn = "fast_concatenate_videos"
                            THEN "CalledProcessError" ELSE @]
    /\ UNCHANGED notTwo

\* video_processing.py:333: os.remove(list_file) raises when the file is
\* gone; 421-426: the concat file is removed if it exists, then the return
\* code is tested.
T_Remove(p) ==
    /\ two.inv[p].pc = "remove"
    /\ two' = [two EXCEPT
                 !.files[ListFile(p)] = Absent,
                 !.inv[p].pc = "done",
                 !.inv[p].exc =
                     IF two.inv[p].fn = "fast_concatenate_videos"
                     THEN (IF two.files[ListFile(p)].exists THEN @
                           ELSE "FileNotFoundError")
                     ELSE (IF two.inv[p].returncode # 0
                           THEN "FFmpeg concat error" ELSE @)]
    /\ UNCHANGED notTwo

NextTwo ==
    \E p \in Invocations : T_Open(p) \/ T_Close(p) \/ T_Run(p) \/ T_Remove(p)

SpecTwo == InitTwo /\ [][NextTwo]_vars

HasRun(p) == two.inv[p].pc \in {"remove", "done"}

\* C17: when two invocations run at once, the directive ffmpeg reads for
\* each names exactly the segments of that invocation: the other has
\* neither overwritten nor deleted it, and no clean-up fails on a file the
\* other removed.
C17_OwnDirectiveOnly ==
    \A p \in Invocations :
        /\ HasRun(p) => two.inv[p].directive = Present(OwnDirective(p))
        /\ two.inv[p].exc # "FileNotFoundError"

\* What the code has of C17: an invocation of concatenate_videos_ffmpeg,
\* whose concat file is named after its output path, reads its own
\* directive whatever the other invocation does.
ConcatFileNotShared ==
    \A p \in Invocations :
        (HasRun(p) /\ two.inv[p].fn = "concatenate_videos_ffmpeg") =>
            two.inv[p].directive = Present(OwnDirective(p))

BothFfmpegDone ==
    /\ \A p \in Invocations :
          /\ two.inv[p].fn = "concatenate_videos_ffmpeg"
          /\ two.inv[p].pc = "done"
          /\ two.inv[p].returncode = 0
          /\ Len(two.inv[p].video_paths) = 2

ReadTheOthersSegments ==
    /\ two.inv[1].fn = "fast_concatenate_videos"
    /\ HasRun(1)
    /\ two.inv[1].directive = Present(OwnDirective(2))

(***************************************************************************)
(* SpecLocal: create_video_from_matches_local                              *)
(* (video_processing.py:431-527) with cut_video_ffmpeg (336-363),          *)
(* resize_and_crop_video_ffmpeg (366-393) and concatenate_videos_ffmpeg    *)
(* (396-428).  The matches are those of SpecCreate.                        *)
(***************************************************************************)
notLocal == <<orchVars, taskVars, cv, cm, concatVars, sub, ts, ex, mg, two, vo, tl, pj, ast>>

InitLocal ==
    /\ ast = AstIdle
    /\ pj = PjIdle
    /\ tl = TlIdle
    /\ vo = VoIdle
    /\ cfg = [use_mock |-> FALSE, base_url |-> TRUE, results_url |-> TRUE,
              api_key |-> TRUE, user_id |-> TRUE, saved_item_id |-> TRUE]
    /\ lastCall = NoCall
    /\ InitTaskIdle
    /\ matches \in MatchLists
    /\ cv = CvIdle
    /\ cm = CmIdle
    /\ InitConcatIdle
    /\ sub = SubIdle
    /\ ts = TsIdle
    /\ ex = ExIdle
    /\ mg = MgIdle
    /\ two = TwoIdle
    /\ loc = LocIdle

\* One pass of the loop body, video_processing.py:460-510.  dl_ok is a
\* download that leaves a file that is not empty; cut_returncode and
\* resize_returncode are the return codes of the two ffmpeg runs, which raise
\* Exception("FFmpeg error") and Exception("FFmpeg resize error") when they
\* are not 0 (360-361, 390-391); the handler of 506-510 catches both and
\* goes on with the next match.
local_match(c, m, dl_ok, cut_returncode, resize_returncode) ==
    LET next == [c EXCEPT !.i = @ + 1]
        t == vp_parse_timestamp(m.clip_timestamp)                     \* 470
        duration == t.end - t.start
    IN  IF MissingFields(m) THEN next                                \* 464-466
        ELSE IF ~t.ok THEN next                                      \* 506-510
        ELSE IF duration <= 0 THEN next                              \* 473-475
        ELSE IF ~dl_ok THEN next                                     \* 484-486
        ELSE IF cut_returncode # 0                                   \* 491
        THEN [next EXCEPT !.failed = @ \cup {c.i}]
        ELSE IF resize_returncode # 0                                \* 496
        THEN [next EXCEPT !.failed = @ \cup {c.i}]
        ELSE [next EXCEPT !.cut_clip_paths = Append(@, c.i)]         \* 498

\* video_processing.py:451-456.
L_Start ==
    /\ loc.pc = "idle"
    /\ loc' = IF matches = <<>>
              THEN [loc EXCEPT !.pc = "done", !.exc = "No matches provided"]
              ELSE [loc EXCEPT !.pc = "loop", !.i = 1]
    /\ UNCHANGED <<notLocal, matches>>

L_Match ==
    /\ loc.pc = "loop" /\ loc.i <= Len(matches)
    /\ \E dl_ok \in BOOLEAN, cut_returncode, resize_returncode \in {0, 1} :
          loc' = local_match(loc, matches[loc.i], dl_ok, cut_returncode,
                             resize_returncode)
    /\ UNCHANGED <<notLocal, matches>>

\* video_processing.py:512-513 and 523-527: the exception is printed and
\* raised again.
L_LoopEnd ==
    /\ loc.pc = "loop" /\ loc.i > Len(matches)
    /\ loc' = IF loc.cut_clip_paths = <<>>
              THEN [loc EXCEPT !.pc = "done",
                               !.exc = "No valid clips were processed"]
              ELSE [loc EXCEPT !.pc = "concat"]
    /\ UNCHANGED <<notLocal, matches>>

\* video_processing.py:516-521: concatenate_videos_ffmpeg writes
\* final_video.mp4 from the segments of cut_clip_paths, or raises.
L_Concat ==
    /\ loc.pc = "concat"
    /\ \E returncode \in {0, 1} :
          loc' = IF returncode = 0
                 THEN [loc EXCEPT !.pc = "done", !.final_video = TRUE]
                 ELSE [loc EXCEPT !.pc = "done", !.exc = "FFmpeg concat error"]
    /\ UNCHANGED <<notLocal, matches>>

NextLocal == L_Start \/ L_Match \/ L_LoopEnd \/ L_Concat

SpecLocal == InitLocal /\ [][NextLocal]_vars

\* C18: a segment whose cut or encode fails aborts the whole run: the
\* failure reaches the caller, and no final video is made of the other
\* segments.
C18_EncodeFailureAborts ==
    (loc.pc = "done" /\ loc.failed # {}) =>
        /\ loc.exc # "-"
        /\ ~loc.final_video

FinalVideoWithoutFailedSegment ==
    /\ loc.pc = "done"
    /\ loc.failed = {1}
    /\ loc.cut_clip_paths = <<2>>
    /\ loc.final_video
    /\ loc.exc = "-"

\* What the code has of C18: in POST /create_video a failure of cut_clip
\* leaves the loop, and the request ends with HTTP 500 and no final video.
EndpointCutFailureAborts ==
    (cv.exc = "cut_clip" /\ cv.pc \in {"finally", "done"}) =>
        /\ cv.status = 500
        /\ FinalFile \notin cv.temp_files

EndpointCutFailed == cv.pc = "done" /\ cv.exc = "cut_clip"

(***************************************************************************)
(* The concat failure, under SpecConcat.                                   *)
(***************************************************************************)
ConcatFailures == {"CalledProcessError", "FFmpeg concat error"}

\* C19: a concat call ends with a concat failure only after a command that
\* re-encodes the inputs has been run after the stream copy.
C19_ReencodeBeforeFatal ==
    (cc.pc = "done" /\ cc.exc \in ConcatFailures) =>
        /\ Len(cc.commands) >= 2
        /\ cc.commands[1] = stream_copy
        /\ \E k \in 2..Len(cc.commands) : cc.commands[k] # stream_copy

\* What the code has of C19: the one ffmpeg command of a concat call is the
\* stream copy, and its failure ends the call.
StreamCopyOnly ==
    /\ \A k \in 1..Len(cc.commands) : cc.commands[k] = stream_copy
    /\ Len(cc.commands) <= 1
    /\ (cc.fn \in {"fast_concatenate_videos", "concatenate_videos_ffmpeg"}
        /\ cc.pc = "done") => Len(cc.commands) = 1

StreamCopyFailedFatal ==
    /\ cc.pc = "done"
    /\ cc.exc \in ConcatFailures
    /\ cc.commands = <<stream_copy>>

(***************************************************************************)
(* The font that does not load, under SpecSubs.                            *)
(***************************************************************************)
BadFont == sub.font.state # "loads"

\* C20: in add_subtitles_to_video a style font that cannot be loaded never
\* aborts the export: no exception leaves the entry, neither from the
\* measure of the chunk loop nor from the making of an overlay.
C20_BadFontAbsorbed ==
    (sub.variant = "services" /\ BadFont) => sub.exc = "-"

\* What the code has of C20: when the overlay cannot be made with the style
\* font, add_subtitles_to_video retries with "Arial" and, when that fails
\* too, leaves the overlay of that chunk out and goes on; with a font that
\* loads for the measure no exception leaves the entry.
OverlayFailureAbsorbed ==
    (sub.variant = "services" /\ ~BadFont) =>
        /\ sub.exc = "-"
        /\ \A k \in 1..Len(sub.subtitle_clips) :
              sub.subtitle_clips[k].font \in {"style font", "Arial"}
        /\ Len(sub.subtitle_clips) <= sub.i

OverlayLeftOut ==
    /\ sub.variant = "services"
    /\ sub.pc = "done"
    /\ Len(sub.chunks) = 2
    /\ Len(sub.subtitle_clips) = 1
    /\ sub.subtitle_clips[1].font = "Arial"

MeasureAborted ==
    /\ sub.variant = "services"
    /\ sub.font.state = "unloadable"
    /\ sub.pc = "done"
    /\ sub.exc = "OSError"

(***************************************************************************)
(* The width of the chunks, under SpecSubs.                                *)
(***************************************************************************)
Measured(chunk) == MeasureFits(sub.variant, sub.font, Join(chunk))

WidthBounded ==
    \A k \in 1..Len(sub.chunks) :
        Len(sub.chunks[k]) > 1 => Measured(sub.chunks[k])

Greedy ==
    \A k \in 1..(Len(sub.chunks) - 1) :
        ~Measured(Append(sub.chunks[k], sub.chunks[k + 1][1]))

\* C21: once the words of an entry are chunked with a font that loads, every
\* chunk of more than one word measures at most max_width_ratio * frame
\* width, and a chunk was closed only where the next word would have taken
\* its measure over that limit.
C21_GreedyWidthBounded ==
    (ChunksMade /\ sub.font.state = "loads") => (WidthBounded /\ Greedy)

\* What the code has of C21: the chunk loops that test the measure alone
\* (services/video_processing.py:202-209, caption_maker.py) keep it.
MeasuredLoopsGreedyWidthBounded ==
    (ChunksMade /\ sub.font.state = "loads"
     /\ sub.variant # "video_processing") => (WidthBounded /\ Greedy)

MeasuredLoopClosedChunk ==
    /\ ChunksMade
    /\ sub.variant = "services"
    /\ Len(sub.chunks) = 2
    /\ Len(sub.chunks[1]) = 2
    /\ Measured(sub.chunks[1])

EstimateKeptWideChunk ==
    /\ ChunksMade
    /\ sub.variant = "video_processing"
    /\ sub.font.state = "loads"
    /\ Len(sub.chunks) = 1
    /\ Len(sub.chunks[1]) = 2
    /\ ~Measured(sub.chunks[1])

(***************************************************************************)
(* The floor of the duration of an entry, under SpecSubs.                  *)
(***************************************************************************)
EntrySpan == time_to_seconds(sub.entry.end) - time_to_seconds(sub.entry.start)

Positive(frac) == FracLess(<<0, 1>>, frac)

\* C22: once the times of an entry are read, its duration is 0.5 s when end -
\* start <= 0 and end - start otherwise, and every overlay made for it lasts
\* that duration divided by the number of chunks, which is more than 0.
C22_DurationFloor ==
    sub.pc # "idle" =>
        /\ EntrySpan <= 0 => sub.total_duration = <<1, 2>>
        /\ EntrySpan > 0 => sub.total_duration = <<EntrySpan, 1>>
        /\ \A k \in 1..Len(sub.subtitle_clips) :
              /\ Positive(sub.subtitle_clips[k].duration)
              /\ FracTimes(Len(sub.chunks), sub.subtitle_clips[k].duration)
                     = sub.total_duration

C22_Witness ==
    /\ sub.pc = "done"
    /\ EntrySpan = 0
    /\ Len(sub.chunks) = 2
    /\ Len(sub.subtitle_clips) = 2
    /\ sub.subtitle_clips[2].duration = <<1, 4>>

KeptDuration ==
    /\ sub.pc = "done"
    /\ EntrySpan = 3
    /\ Len(sub.subtitle_clips) = 2
    /\ sub.subtitle_clips[1].duration = <<3, 2>>

SubmitFailedRecorded ==
    /\ project.exists
    /\ pvt.pc = "done"
    /\ pvt.run_id = "-"
    /\ project.status = "failed"
    /\ project.error # "-"

(***************************************************************************)
(* SpecVoice: the voiceover endpoints of one project                       *)
(* (routers/voiceover.py:87-344) and the blobs of its voiceovers in S3,    *)
(* one request after the other.                                            *)
(***************************************************************************)
notVoice == <<orchVars, taskVars, createVars, concatVars, sub, ts, ex, mg, two, loc, tl, pj, ast>>

\* The keys f"{s3_prefix}/{timestamp}_voiceover{ext}" of three seconds.
VoiceKeys == {"t1_voiceover", "t2_voiceover", "t3_voiceover"}

Voiceover(s3_key, source) ==
    [present |-> TRUE, s3_key |-> s3_key, source |-> source]

\* services/s3.py:48-59: delete_object, or False when it fails.
delete_file(blobs, s3_key, ok) == IF ok THEN blobs \ {s3_key} ELSE blobs

\* "Delete old voiceover from S3 if exists", voiceover.py:136-139, 209-212,
\* 271-274.
delete_old(v, ok) ==
    IF v.voiceover.present THEN delete_file(v.blobs, v.voiceover.s3_key, ok)
    ELSE v.blobs

InitVoice ==
    /\ ast = AstIdle
    /\ pj = PjIdle
    /\ tl = TlIdle
    /\ cfg = [use_mock |-> FALSE, base_url |-> TRUE, results_url |-> TRUE,
              api_key |-> TRUE, user_id |-> TRUE, saved_item_id |-> TRUE]
    /\ lastCall = NoCall
    /\ InitTaskIdle
    /\ InitCreateIdle
    /\ InitConcatIdle
    /\ sub = SubIdle
    /\ ts = TsIdle
    /\ ex = ExIdle
    /\ mg = MgIdle
    /\ two = TwoIdle
    /\ loc = LocIdle
    /\ vo = VoIdle

\* voiceover.py:87-116 and the client: the presigned URL of a key is given
\* out and the client puts the blob there.
V_PresignedPut ==
    /\ \E s3_key \in VoiceKeys, url_ok \in BOOLEAN :
          vo' = IF url_ok
                THEN [vo EXCEPT !.blobs = @ \cup {s3_key}, !.op = "upload-url",
                                !.status = 200]
                ELSE [vo EXCEPT !.op = "upload-url", !.status = 500]
    /\ UNCHANGED notVoice

\* voiceover.py:119-191: upload_voiceover_direct.
V_Upload ==
    /\ \E s3_key \in VoiceKeys, delete_ok, upload_ok \in BOOLEAN :
          LET blobs == delete_old(vo, delete_ok)                      \* 137-139
          IN  vo' = IF ~upload_ok                                     \* 158-159
                    THEN [vo EXCEPT !.blobs = blobs, !.op = "upload",
                                    !.status = 500]
                    ELSE [voiceover |-> Voiceover(s3_key, "uploaded"), \* 174-182
                          blobs |-> blobs \cup {s3_key},
                          op |-> "upload", status |-> 200]
    /\ UNCHANGED notVoice

\* voiceover.py:194-242: confirm_upload.
V_Confirm ==
    /\ \E s3_key \in VoiceKeys, delete_ok \in BOOLEAN :
          vo' = [voiceover |-> Voiceover(s3_key, "uploaded"),
                 blobs |-> delete_old(vo, delete_ok),
                 op |-> "confirm", status |-> 200]
    /\ UNCHANGED notVoice

\* voiceover.py:245-317: generate_voiceover.
V_Generate ==
    /\ \E s3_key \in VoiceKeys,
          text_ok, speech_ok, delete_ok, upload_ok \in BOOLEAN :
          vo' = IF ~text_ok                                           \* 259-260
                THEN [vo EXCEPT !.op = "generate", !.status = 400]
                ELSE IF ~speech_ok                                    \* 265-269
                THEN [vo EXCEPT !.op = "generate", !.status = 500]
                ELSE LET blobs == delete_old(vo, delete_ok)           \* 272-274
                     IN  IF ~upload_ok                                \* 288-289
                         THEN [vo EXCEPT !.blobs = blobs, !.op = "generate",
                                         !.status = 500]
                         ELSE [voiceover |-> Voiceover(s3_key, "generated"),
                               blobs |-> blobs \cup {s3_key},
                               op |-> "generate", status |-> 200]
    /\ UNCHANGED notVoice

\* voiceover.py:320-344: delete_voiceover.
V_Delete ==
    /\ \E delete_ok \in BOOLEAN :
          vo' = IF ~vo.voiceover.present                              \* 331-332
                THEN [vo EXCEPT !.op = "delete", !.status = 404]
                ELSE [voiceover |-> NoVoiceover,
                      blobs |-> delete_file(vo.blobs, vo.voiceover.s3_key,
                                            delete_ok),
                      op |-> "delete", status |-> 204]
    /\ UNCHANGED notVoice

NextVoice == V_PresignedPut \/ V_Upload \/ V_Confirm \/ V_Generate \/ V_Delete

SpecVoice == InitVoice /\ [][NextVoice]_vars

\* C24: no operation deletes the blob of the voiceover record and leaves the
\* record pointing to it: when the record of the project is the same after
\* an operation as before it, and its blob was in the store, the blob still
\* is.
C24_BlobKeptWhileReferenced ==
    [][(/\ vo.voiceover.present
        /\ vo.voiceover.s3_key \in vo.blobs
        /\ vo'.voiceover = vo.voiceover)
          => vo.voiceover.s3_key \in vo'.blobs]_vars

DanglingAfterFailedUpload ==
    /\ vo.op = "upload"
    /\ vo.status = 500
    /\ vo.voiceover.present
    /\ vo.voiceover.s3_key \notin vo.blobs

\* What the code has of C24: an upload or a generation that succeeds leaves
\* the record pointing to the blob it has just stored.
StoredWhenReplaced ==
    (vo.op \in {"upload", "generate"} /\ vo.status = 200) =>
        /\ vo.voiceover.present
        /\ vo.voiceover.s3_key \in vo.blobs

ReplacedAndStored ==
    /\ vo.op = "generate" /\ vo.status = 200
    /\ vo.voiceover.source = "generated"
    /\ Cardinality(vo.blobs) = 1

(***************************************************************************)
(* SpecClips: the timeline endpoints of one project (routers/clips.py):    *)
(* add_clip (84-138), update_clip (141-191) and reorder_clips (220-263).   *)
(* A handler reads the project when it verifies the access and writes with *)
(* update_one at its end; two requests can be between the two at once.     *)
(***************************************************************************)
MaxTimeline == 2

\* The requests received in one behaviour.
MaxRequests == 3

notClips == <<orchVars, taskVars, createVars, concatVars, sub, ts, ex, mg, two, loc, vo, pj, ast>>

StartTimes == {-1, 0, 8}
EndTimes == {5, 10}

\* max([c.get("order", 0) for c in clips], default=0), clips.py:118.
RECURSIVE MaxOrder(_)
MaxOrder(clips) ==
    IF clips = <<>> THEN 0
    ELSE IF Len(clips) = 1 THEN clips[1].order
    ELSE LET m == MaxOrder(Tail(clips))
         IN  IF Head(clips).order > m THEN Head(clips).order ELSE m

\* clips.py:113-118: the order given, or one more than the largest.
new_order(clips, has_order, order) ==
    IF has_order THEN order ELSE MaxOrder(clips) + 1

\* clips.py:97-101: the test of the times of add_clip.
add_times_ok(start_time, end_time) ==
    start_time >= 0 /\ end_time > start_time

\* The index of the first clip with the id, 0 when there is none
\* (clips.py:153; the positional operator of the update of line 186).
IndexOf(clips, clip_id) ==
    IF \E k \in 1..Len(clips) : clips[k].id = clip_id
    THEN CHOOSE k \in 1..Len(clips) :
            /\ clips[k].id = clip_id
            /\ \A j \in 1..(k - 1) : clips[j].id # clip_id
    ELSE 0

\* clips.py:160-174: the fields of the request put on a clip.
apply_fields(clip, q) ==
    [clip EXCEPT !.start_time = IF q.has_start THEN q.start_time ELSE @,
                 !.end_time = IF q.has_end THEN q.end_time ELSE @,
                 !.order = IF q.has_order THEN q.order ELSE @]

Pending(r) == tl.req[r].op # "none"

OtherPending(r) == \E o \in Requests \ {r} : Pending(o)

PendingAdds == Cardinality({r \in Requests : tl.req[r].op = "add"})

Answer(op, status) == [NoAnswer EXCEPT !.op = op, !.status = status]

Receive(t) == [t EXCEPT !.received = @ + 1]

InitClips ==
    /\ ast = AstIdle
    /\ pj = PjIdle
    /\ cfg = [use_mock |-> FALSE, base_url |-> TRUE, results_url |-> TRUE,
              api_key |-> TRUE, user_id |-> TRUE, saved_item_id |-> TRUE]
    /\ lastCall = NoCall
    /\ InitTaskIdle
    /\ InitCreateIdle
    /\ InitConcatIdle
    /\ sub = SubIdle
    /\ ts = TsIdle
    /\ ex = ExIdle
    /\ mg = MgIdle
    /\ two = TwoIdle
    /\ loc = LocIdle
    /\ vo = VoIdle
    /\ tl = TlIdle

\* clips.py:92-127: the project is read, the times are tested, the order and
\* the id of the new clip are decided.
TL_AddRead(r) ==
    /\ ~Pending(r)
    /\ tl.received < MaxRequests
    /\ Len(tl.clips) + PendingAdds < MaxTimeline
    /\ \E start_time \in StartTimes, end_time \in EndTimes,
          has_order \in BOOLEAN :
          tl' = IF ~add_times_ok(start_time, end_time)                \* 98-101
                THEN [Receive(tl) EXCEPT !.last = Answer("add", 400)]
                ELSE [Receive(tl) EXCEPT
                        !.req[r] =
                            [op |-> "add", clip_id |-> tl.next_id,
                             has_start |-> TRUE, start_time |-> start_time,
                             has_end |-> TRUE, end_time |-> end_time,
                             has_order |-> has_order,
                             order |-> new_order(tl.clips, has_order, 1)],
                        !.next_id = @ + 1,
                        !.overlapped = @ \/ OtherPending(r),
                        !.last = Answer("add", 0)]
    /\ UNCHANGED notClips

\* clips.py:129-138: $push of the new clip.
TL_AddWrite(r) ==
    /\ tl.req[r].op = "add"
    /\ LET q == tl.req[r]
       IN  tl' = [tl EXCEPT
                    !.clips = Append(@, [id |-> q.clip_id,
                                         start_time |-> q.start_time,
                                         end_time |-> q.end_time,
                                         order |-> q.order]),
                    !.req[r] = NoRequest,
                    !.last = [Answer("add", 201) EXCEPT
                                 !.auto = ~q.has_order, !.order = q.order]]
    /\ UNCHANGED notClips

\* clips.py:150-181: the project is read, the clip found, the fields of the
\* request tested against the clip as it was read.
TL_UpdateRead(r) ==
    /\ ~Pending(r)
    /\ tl.received < MaxRequests
    /\ \E clip_id \in 1..MaxTimeline,
          has_start, has_end, has_order \in BOOLEAN,
          start_time \in StartTimes, end_time \in EndTimes :
          LET k == IndexOf(tl.clips, clip_id)
              q == [op |-> "update", clip_id |-> clip_id,
                    has_start |-> has_start,
                    start_time |-> IF has_start THEN start_time ELSE 0,
                    has_end |-> has_end,
                    end_time |-> IF has_end THEN end_time ELSE 0,
                    has_order |-> has_order,
                    order |-> IF has_order THEN 1 ELSE 0]
          IN  tl' = IF k = 0                                          \* 155-156
                    THEN [Receive(tl) EXCEPT !.last = Answer("update", 404)]
                    ELSE IF has_start /\ start_time < 0               \* 163-164
                    THEN [Receive(tl) EXCEPT !.last = Answer("update", 400)]
                    ELSE IF apply_fields(tl.clips[k], q).end_time
                              <= apply_fields(tl.clips[k], q).start_time
                    THEN [Receive(tl) EXCEPT !.last = Answer("update", 400)]   \* 177-178
                    ELSE IF ~(has_start \/ has_end \/ has_order)      \* 180-181
                    THEN [Receive(tl) EXCEPT !.last = Answer("update", 200)]
                    ELSE [Receive(tl) EXCEPT !.req[r] = q,
                                    !.overlapped = @ \/ OtherPending(r),
                                    !.last = Answer("update", 0)]
    /\ UNCHANGED notClips

\* clips.py:183-191: $set of the fields on the clip with the id.
TL_UpdateWrite(r) ==
    /\ tl.req[r].op = "update"
    /\ LET q == tl.req[r]
           k == IndexOf(tl.clips, q.clip_id)
       IN  tl' = [tl EXCEPT
                    !.clips = IF k = 0 THEN @
                              ELSE [@ EXCEPT ![k] = apply_fields(@, q)],
                    !.req[r] = NoRequest,
                    !.last = Answer("update", 200)]
    /\ UNCHANGED notClips

\* The lists of ids a reorder request can carry.
IdLists == UNION {[1..n -> 1..MaxTimeline] : n \in 0..(MaxTimeline + 1)}

Ids(clips) == {clips[k].id : k \in 1..Len(clips)}

\* clips.py:245-250: the clip of each id of the list, its order set to its
\* place in the list.  clip_map holds one clip for an id.
reordered(clips, clip_ids) ==
    [i \in 1..Len(clip_ids) |->
        [clips[IndexOf(clips, clip_ids[i])] EXCEPT
            !.order = CHOOSE j \in 1..Len(clip_ids) :
                         /\ clip_ids[j] = clip_ids[i]
                         /\ \A h \in (j + 1)..Len(clip_ids) :
                               clip_ids[h] # clip_ids[i]]]

\* clips.py:231-263: reorder_clips.
TL_Reorder ==
    /\ tl.received < MaxRequests
    /\ \E clip_ids \in IdLists :
          LET answer(status) ==
                  [Answer("reorder", status) EXCEPT !.clip_ids = clip_ids]
          IN  tl' = IF \E i \in 1..Len(clip_ids) :
                          clip_ids[i] \notin Ids(tl.clips)            \* 237-239
                    THEN [Receive(tl) EXCEPT !.last = answer(400)]
                    ELSE IF {clip_ids[i] : i \in 1..Len(clip_ids)}
                              # Ids(tl.clips)                         \* 242-243
                    THEN [Receive(tl) EXCEPT !.last = answer(400)]
                    ELSE [Receive(tl) EXCEPT
                            !.clips = reordered(tl.clips, clip_ids),
                            !.overlapped = @ \/ \E r \in Requests : Pending(r),
                            !.last = answer(200)]
    /\ UNCHANGED notClips

NextClips ==
    \/ \E r \in Requests :
          TL_AddRead(r) \/ TL_AddWrite(r) \/ TL_UpdateRead(r) \/ TL_UpdateWrite(r)
    \/ TL_Reorder

SpecClips == InitClips /\ [][NextClips]_vars

NoRepeat(seq) ==
    \A i, j \in 1..Len(seq) : seq[i] = seq[j] => i = j

IdsOf(clips) == [k \in 1..Len(clips) |-> clips[k].id]

IsPermutation(clip_ids, clips) ==
    /\ NoRepeat(clip_ids)
    /\ {clip_ids[i] : i \in 1..Len(clip_ids)} = Ids(clips)

\* The timeline a reorder has to leave: the clip of each id of the list, as
\* it was, with its place in the list as its order.
Reordered(before, after, clip_ids) ==
    /\ Len(after) = Len(clip_ids)
    /\ \A i \in 1..Len(clip_ids) :
          after[i] = [before[IndexOf(before, clip_ids[i])] EXCEPT !.order = i]

\* C25: a reorder_clips call whose list is a permutation of the ids of the
\* timeline succeeds and leaves the same clips, each once, with the orders
\* 1..n in the sequence of the list; any other list is rejected and the
\* timeline is left as it was.
C25_ReorderKeepsClips ==
    [][tl'.last.op = "reorder" =>
          IF IsPermutation(tl'.last.clip_ids, tl.clips)
          THEN /\ tl'.last.status = 200
               /\ Reordered(tl.clips, tl'.clips, tl'.last.clip_ids)
               /\ NoRepeat(IdsOf(tl'.clips))
          ELSE /\ tl'.last.status = 400
               /\ tl'.clips = tl.clips]_vars

\* What the code has of C25: a list without a repeated id is handled as
\* claimed.
ReorderWithoutRepeat ==
    [][(/\ tl'.last.op = "reorder"
        /\ NoRepeat(tl'.last.clip_ids)
        /\ NoRepeat(IdsOf(tl.clips))) =>
          IF IsPermutation(tl'.last.clip_ids, tl.clips)
          THEN /\ tl'.last.status = 200
               /\ Reordered(tl.clips, tl'.clips, tl'.last.clip_ids)
               /\ NoRepeat(IdsOf(tl'.clips))
          ELSE /\ tl'.last.status = 400
               /\ tl'.clips = tl.clips]_vars

ReorderedTwo ==
    /\ tl.last.op = "reorder" /\ tl.last.status = 200
    /\ tl.last.clip_ids = <<2, 1>>
    /\ IdsOf(tl.clips) = <<2, 1>>
    /\ tl.clips[1].order = 1 /\ tl.clips[2].order = 2

ClipTwiceAfterReorder ==
    /\ tl.last.op = "reorder" /\ tl.last.status = 200
    /\ ~NoRepeat(IdsOf(tl.clips))

TimesValid(clip) == clip.start_time >= 0 /\ clip.end_time > clip.start_time

\* C26: every clip stored in the timeline has start_time >= 0 and end_time >
\* start_time, whatever add_clip and update_clip calls were made and however
\* they were interleaved.
C26_ClipTimesValid ==
    \A k \in 1..Len(tl.clips) : TimesValid(tl.clips[k])

\* What the code has of C26: when no request was received while another was
\* between its read and its write, every stored clip has valid times.
ClipTimesValidInSequence ==
    ~tl.overlapped => \A k \in 1..Len(tl.clips) : TimesValid(tl.clips[k])

UpdatedInSequence ==
    /\ ~tl.overlapped
    /\ tl.last.op = "update" /\ tl.last.status = 200
    /\ Len(tl.clips) = 1
    /\ tl.clips[1].start_time = 8 /\ tl.clips[1].end_time = 10

InvalidAfterTwoUpdates ==
    /\ tl.last.op = "update" /\ tl.last.status = 200
    /\ Len(tl.clips) = 1
    /\ tl.clips[1].start_time = 8 /\ tl.clips[1].end_time = 5

\* C27: a clip added without an explicit order is appended with an order one
\* more than the largest order of the timeline it is appended to, so no clip
\* of that timeline has its order.
C27_AutoOrderIsLast ==
    [][(tl'.last.op = "add" /\ tl'.last.status = 201 /\ tl'.last.auto) =>
          /\ tl'.last.order = MaxOrder(tl.clips) + 1
          /\ \A k \in 1..Len(tl.clips) : tl.clips[k].order # tl'.last.order]_vars

\* What the code has of C27: the same, when no request was received while
\* another was between its read and its write.
AutoOrderIsLastInSequence ==
    [][(/\ tl'.last.op = "add" /\ tl'.last.status = 201 /\ tl'.last.auto
        /\ ~tl'.overlapped) =>
          /\ tl'.last.order = MaxOrder(tl.clips) + 1
          /\ \A k \in 1..Len(tl.clips) : tl.clips[k].order # tl'.last.order]_vars

AppendedInSequence ==
    /\ ~tl.overlapped
    /\ tl.last.op = "add" /\ tl.last.status = 201 /\ tl.last.auto
    /\ Len(tl.clips) = 2
    /\ tl.clips[2].order = tl.clips[1].order + 1

SameAutoOrder ==
    /\ tl.last.op = "add" /\ tl.last.status = 201 /\ tl.last.auto
    /\ Len(tl.clips) = 2
    /\ tl.clips[1].order = 1 /\ tl.clips[2].order = 1
    /\ tl.req[1].op = "none" /\ tl.req[2].op = "none"
    /\ tl.received = 2

(***************************************************************************)
(* The projects router (src/backend/routers/projects.py) and the access    *)
(* check the clips, assets, voiceover and export routers share.  A caller  *)
(* is the user get_current_user returns (None for an anonymous request,    *)
(* written "none") and the session id of the request, which the session    *)
(* middleware always sets (middleware/session.py).  Each handler is one    *)
(* step.                                                                   *)
(***************************************************************************)
notProjects == <<orchVars, taskVars, createVars, concatVars, sub, ts, ex, mg, two, loc, vo, tl, ast>>

Users == {"u1", "u2"}

Sessions == {"s1", "s2"}

Titles == {"A", "B"}

Callers == [user : Users \cup {"none"}, session : Sessions]

\* A wrong access check: any authenticated caller is let in.
has_access_AnyUser(p, user, session_id) ==
    \/ user # "none"
    \/ p.user_id = "none" /\ p.session_id = session_id

\* projects.py:120-125 (the same at 155-160, 210-215 and in
\* verify_project_access of clips.py:40-43, assets.py:67-72,
\* voiceover.py:47-50, export.py:62-67).
has_access(p, user, session_id) ==
    \/ user # "none" /\ p.user_id = user
    \/ p.user_id = "none" /\ p.session_id = session_id

\* find_one by _id, then the access check: 404, 403 or through (200).
access_status(projects, id, c) ==
    IF projects[id].state # "live" THEN 404
    ELSE IF ~has_access(projects[id], c.user, c.session) THEN 403
    ELSE 200

\* find_one({"user_id": user, "title": title, "_id": {"$ne": except}})
existing(projects, user, title, except) ==
    \E i \in ProjectIds \ {except} :
        /\ projects[i].state = "live"
        /\ projects[i].user_id = user
        /\ projects[i].title = title

Reply(op, id, c, status) ==
    [op |-> op, id |-> id, user |-> c.user, session |-> c.session,
     status |-> status]

FreeIds == {i \in ProjectIds : pj.projects[i].state = "free"}

InitProjects ==
    /\ cfg = [use_mock |-> FALSE, base_url |-> TRUE, results_url |-> TRUE,
              api_key |-> TRUE, user_id |-> TRUE, saved_item_id |-> TRUE]
    /\ lastCall = NoCall
    /\ InitTaskIdle
    /\ InitCreateIdle
    /\ InitConcatIdle
    /\ sub = SubIdle
    /\ ts = TsIdle
    /\ ex = ExIdle
    /\ mg = MgIdle
    /\ two = TwoIdle
    /\ loc = LocIdle
    /\ vo = VoIdle
    /\ tl = TlIdle
    /\ ast = AstIdle
    /\ pj = PjIdle

\* create_project (projects.py:56-96).
P_Create(c, title) ==
    /\ FreeIds # {}
    /\ LET id == CHOOSE i \in FreeIds : \A j \in FreeIds : i <= j IN
       pj' = IF c.user # "none" /\ existing(pj.projects, c.user, title, 0)
             THEN [pj EXCEPT !.last = Reply("create", 0, c, 400)]
             ELSE [pj EXCEPT
                     !.projects[id] =
                         [state |-> "live", title |-> title,
                          user_id |-> c.user,
                          session_id |-> IF c.user = "none" THEN c.session
                                         ELSE "none"],
                     !.last = Reply("create", id, c, 201)]
    /\ UNCHANGED notProjects

\* get_project (projects.py:99-130).
P_Get(id, c) ==
    /\ pj' = [pj EXCEPT !.last = Reply("get", id, c,
                                       access_status(pj.projects, id, c))]
    /\ UNCHANGED notProjects

\* update_project (projects.py:133-186); title "none" is a request without
\* a title.
P_Update(id, c, title) ==
    /\ LET st == access_status(pj.projects, id, c) IN
       pj' = IF st # 200
             THEN [pj EXCEPT !.last = Reply("update", id, c, st)]
             ELSE IF /\ title # "none" /\ c.user # "none"
                     /\ existing(pj.projects, c.user, title, id)
             THEN [pj EXCEPT !.last = Reply("update", id, c, 400)]
             ELSE [pj EXCEPT
                     !.projects[id].title = IF title = "none" THEN @ ELSE title,
                     !.last = Reply("update", id, c, 200)]
    /\ UNCHANGED notProjects

\* delete_project (projects.py:189-222).
P_Delete(id, c) ==
    /\ LET st == access_status(pj.projects, id, c) IN
       pj' = IF st # 200
             THEN [pj EXCEPT !.last = Reply("delete", id, c, st)]
             ELSE [pj EXCEPT
                     !.projects[id] = [NoProject EXCEPT !.state = "deleted"],
                     !.last = Reply("delete", id, c, 204)]
    /\ UNCHANGED notProjects

\* claim_project (projects.py:225-273).
P_Claim(id, c) ==
    /\ pj' = IF c.user = "none"
             THEN [pj EXCEPT !.last = Reply("claim", id, c, 401)]
             ELSE IF ~(/\ pj.projects[id].state = "live"
                       /\ pj.projects[id].session_id = c.session
                       /\ pj.projects[id].user_id = "none")
             THEN [pj EXCEPT !.last = Reply("claim", id, c, 404)]
             ELSE [pj EXCEPT
                     !.projects[id].user_id = c.user,
                     !.projects[id].session_id = "none",
                     !.last = Reply("claim", id, c, 200)]
    /\ UNCHANGED notProjects

\* verify_project_access, the first call of every handler of the clips,
\* assets, voiceover and export routers (clips.py:18-47; the same text at
\* assets.py:48-77, voiceover.py:25-54, export.py:43-72).
P_Verify(id, c) ==
    /\ pj' = [pj EXCEPT !.last = Reply("verify", id, c,
                                       access_status(pj.projects, id, c))]
    /\ UNCHANGED notProjects

NextProjects ==
    \/ \E c \in Callers, title \in Titles : P_Create(c, title)
    \/ \E id \in ProjectIds, c \in Callers : P_Get(id, c)
    \/ \E id \in ProjectIds, c \in Callers, title \in Titles \cup {"none"} :
          P_Update(id, c, title)
    \/ \E id \in ProjectIds, c \in Callers : P_Delete(id, c)
    \/ \E id \in ProjectIds, c \in Callers : P_Claim(id, c)
    \/ \E id \in ProjectIds, c \in Callers : P_Verify(id, c)

SpecProjects == InitProjects /\ [][NextProjects]_vars

TitlesUnique(projects) ==
    \A i, j \in ProjectIds :
        (/\ i # j
         /\ projects[i].state = "live" /\ projects[j].state = "live"
         /\ projects[i].user_id # "none"
         /\ projects[i].user_id = projects[j].user_id) =>
            projects[i].title # projects[j].title

\* C28: no two projects owned by the same user share a title, whatever
\* create_project, update_project and claim_project calls were made.
C28_TitlesUniquePerUser == TitlesUnique(pj.projects)

\* What the code has of C28: create_project and update_project never make
\* two projects of one user share a title.
CreateUpdateKeepTitlesUnique ==
    [][(TitlesUnique(pj.projects) /\ pj'.last.op \in {"create", "update"}) =>
          TitlesUnique(pj'.projects)]_vars

DuplicateTitleRefused ==
    /\ pj.last.op \in {"create", "update"} /\ pj.last.status = 400
    /\ TitlesUnique(pj.projects)

SameTitleAfterClaim ==
    /\ pj.last.op = "claim" /\ pj.last.status = 200
    /\ ~TitlesUnique(pj.projects)

AccessOps == {"get", "update", "delete", "verify"}

\* C29: an operation on a project gets through only for the authenticated
\* owner or, on an unowned project, for a caller with the session of the
\* project; a successful claim_project leaves the project owned by the
\* claiming user with no session id, closed to the anonymous caller of the
\* session it had.
C29_OwnerOrSessionOnly ==
    [][LET r == pj'.last IN
       /\ (r.op \in AccessOps /\ r.status \in {200, 204}) =>
             /\ pj.projects[r.id].state = "live"
             /\ \/ r.user # "none" /\ pj.projects[r.id].user_id = r.user
                \/ /\ pj.projects[r.id].user_id = "none"
                   /\ pj.projects[r.id].session_id = r.session
       /\ (r.op = "claim" /\ r.status = 200) =>
             /\ pj.projects[r.id].user_id = "none"
             /\ pj.projects[r.id].session_id = r.session
             /\ pj'.projects[r.id].user_id = r.user
             /\ pj'.projects[r.id].session_id = "none"
             /\ access_status(pj'.projects, r.id,
                              [user |-> "none", session |-> r.session]) = 403
      ]_vars

\* A project just claimed by an authenticated caller of its session.
C29_Witness ==
    /\ pj.last.op = "claim" /\ pj.last.status = 200
    /\ pj.projects[pj.last.id].user_id = pj.last.user
    /\ pj.projects[pj.last.id].session_id = "none"

\* An anonymous caller refused on an owned project.
AnonymousRefused ==
    /\ pj.last.op \in AccessOps /\ pj.last.status = 403
    /\ pj.last.user = "none"
    /\ pj.projects[pj.last.id].state = "live"
    /\ pj.projects[pj.last.id].user_id # "none"

(***************************************************************************)
(* The assets router (src/backend/routers/assets.py) on the assets of one  *)
(* project.  verify_project_access, the first call of each handler, is     *)
(* taken by its outcome: through, or 403.  Each handler is one step.       *)
(***************************************************************************)
notAssets == <<orchVars, taskVars, createVars, concatVars, sub, ts, ex, mg, two, loc, vo, tl, pj>>

Durations == {5, 9}

\* A wrong confirm: the fields are written again on a ready asset.
confirm_Again(asset, duration) ==
    [asset EXCEPT !.status = "ready", !.s3_url = TRUE,
                  !.duration = IF duration # 0 THEN duration ELSE @]

\* confirm_upload from the asset it found (assets.py:177-202): a ready
\* asset is returned as it is; else status, s3_url and the duration of the
\* request, when it has one, are set.
confirm(asset, duration) ==
    IF asset.status = "ready" THEN asset
    ELSE [asset EXCEPT !.status = "ready", !.s3_url = TRUE,
                       !.duration = IF duration # 0 THEN duration ELSE @]

FreeSlots == {i \in AssetSlots : ast.assets[i].state = "free"}

ReadyAssets(assets) ==
    {i \in AssetSlots : assets[i].state = "live" /\ assets[i].status = "ready"}

PendingAssets(assets) ==
    {i \in AssetSlots : assets[i].state = "live" /\ assets[i].status = "pending"}

AssetAnswer(op, status, id) ==
    [NoAssetAnswer EXCEPT !.op = op, !.status = status, !.id = id]

InitAssets ==
    /\ cfg = [use_mock |-> FALSE, base_url |-> TRUE, results_url |-> TRUE,
              api_key |-> TRUE, user_id |-> TRUE, saved_item_id |-> TRUE]
    /\ lastCall = NoCall
    /\ InitTaskIdle
    /\ InitCreateIdle
    /\ InitConcatIdle
    /\ sub = SubIdle
    /\ ts = TsIdle
    /\ ex = ExIdle
    /\ mg = MgIdle
    /\ two = TwoIdle
    /\ loc = LocIdle
    /\ vo = VoIdle
    /\ tl = TlIdle
    /\ pj = PjIdle
    /\ ast = AstIdle

\* get_upload_url (assets.py:80-145); upload_url FALSE is
\* generate_presigned_upload_url returning None (services/s3.py:101-118).
A_UploadUrl(access, upload_url) ==
    /\ FreeSlots # {}
    /\ LET id == CHOOSE i \in FreeSlots : \A j \in FreeSlots : i <= j
           inserted == [ast.assets EXCEPT
                           ![id] = [NoAsset EXCEPT !.state = "live",
                                                   !.status = "pending"]]
       IN ast' = IF ~access
                 THEN [ast EXCEPT !.last = AssetAnswer("upload-url", 403, 0)]
                 ELSE IF ~upload_url
                 THEN [ast EXCEPT
                         !.assets = [inserted EXCEPT
                                        ![id] = [NoAsset EXCEPT !.state = "deleted"]],
                         !.last = AssetAnswer("upload-url", 500, 0)]
                 ELSE [ast EXCEPT
                         !.assets = inserted,
                         !.last = AssetAnswer("upload-url", 200, id)]
    /\ UNCHANGED notAssets

\* confirm_upload (assets.py:148-202); duration 0 is a request without one.
A_Confirm(access, id, duration) ==
    /\ ast' = IF ~access
              THEN [ast EXCEPT !.last = AssetAnswer("confirm", 403, id)]
              ELSE IF ast.assets[id].state # "live"
              THEN [ast EXCEPT !.last = AssetAnswer("confirm", 404, id)]
              ELSE [ast EXCEPT
                      !.assets[id] = confirm(@, duration),
                      !.last = [AssetAnswer("confirm", 200, id) EXCEPT
                                   !.duration = duration,
                                   !.asset = confirm(ast.assets[id], duration)]]
    /\ UNCHANGED notAssets

\* list_assets (assets.py:205-221).
A_List(access) ==
    /\ ast' = IF ~access
              THEN [ast EXCEPT !.last = AssetAnswer("list", 403, 0)]
              ELSE [ast EXCEPT
                      !.last = [AssetAnswer("list", 200, 0) EXCEPT
                                   !.listed = ReadyAssets(ast.assets)]]
    /\ UNCHANGED notAssets

\* delete_asset (assets.py:224-252).
A_Delete(access, id) ==
    /\ ast' = IF ~access
              THEN [ast EXCEPT !.last = AssetAnswer("delete", 403, id)]
              ELSE IF ast.assets[id].state # "live"
              THEN [ast EXCEPT !.last = AssetAnswer("delete", 404, id)]
              ELSE [ast EXCEPT
                      !.assets[id] = [NoAsset EXCEPT !.state = "deleted"],
                      !.last = AssetAnswer("delete", 204, id)]
    /\ UNCHANGED notAssets

NextAssets ==
    \/ \E access, upload_url \in BOOLEAN : A_UploadUrl(access, upload_url)
    \/ \E access \in BOOLEAN, id \in AssetSlots, duration \in Durations \cup {0} :
          A_Confirm(access, id, duration)
    \/ \E access \in BOOLEAN : A_List(access)
    \/ \E access \in BOOLEAN, id \in AssetSlots : A_Delete(access, id)

SpecAssets == InitAssets /\ [][NextAssets]_vars

UploadUrlFailedNoPending ==
    /\ ast.last.op = "upload-url" /\ ast.last.status = 500
    /\ PendingAssets(ast.assets) = {}
    /\ \E i \in AssetSlots : ast.assets[i].state = "deleted"

\* A listing beside a pending asset it leaves out.
ListedWithoutPending ==
    /\ ast.last.op = "list" /\ ast.last.status = 200
    /\ ast.last.listed # {}
    /\ PendingAssets(ast.assets) # {}

=============================================================================
